---------------------------- MODULE Spec2Model ----------------------------
(***************************************************************************)
(* Model of the statement and credit-report parsers of NivEyal/data1.      *)
(*                                                                         *)
(* Money is counted in hundredths (agorot): the balance 47.00 is 4700.     *)
(* A date is a day number; a smaller number is an earlier day.             *)
(* Python's None is the empty sequence and a present value x is <<x>>.     *)
(*                                                                         *)
(* A text line is modelled by what the regular expressions of the source   *)
(* extract from it, not by its characters.                                 *)
(***************************************************************************)
EXTENDS Integers, Sequences, FiniteSets, TLC

\* ------------------------------------------------------------------ bounds
\* Largest day number a matched line may carry.
MaxDate == 2
\* Largest balance (in hundredths) a line may carry.
MaxBal == 2
\* Largest transaction amount (in hundredths) a line may carry.
MaxAmt == 2
\* Largest number of balance points collected from one document.
MaxTx == 2
\* Largest number of lines of a credit report.
MaxLines == 8

\* ----------------------------------------------------------------- options
None == <<>>
Some(x) == <<x>>
Val(o) == o[1]
Abs(x) == IF x < 0 THEN -x ELSE x

\* ------------------------------------------------------------------ state
VARIABLES
    parser,                 \* the entry point that is parsing the document
    pc,                     \* "run" while lines are read, "done" once the table is returned
    transactions,           \* transactions / transactions_data: the collected points
    previous_balance,       \* reconciliation state of the Leumi parsers
    found_first_balance,    \* ap1.py Leumi: the first anchor was seen
    df,                     \* the table returned to the caller
    last,                   \* what the last line read was and what was done with it
    current_section,        \* credit report: the section the lines belong to
    current_entry,          \* credit report: the creditor block being collected
    last_line_was_id,       \* ap1.py credit report: the line before was an XX- line
    potential_bank_continuation_candidate,  \* ap1.py credit report: a name may go on
    extracted_rows,         \* credit report: the rows emitted so far
    line_num,               \* ap1.py extractors: the loop variable of the line loop,
                            \* None until a line loop has run (followed on the error paths)
    calls,                  \* the activations of parse_pdf on one parser object, each with
                            \* its document, its place in it and its local variables
    sorted_as,              \* the arrangements sort_values has returned, by frame sorted
    session_state           \* st.session_state of the running application, None while
                            \* a parser is followed on its own

bankVars == <<transactions, previous_balance, found_first_balance>>
creditVars == <<current_section, current_entry, last_line_was_id,
                potential_bank_continuation_candidate, extracted_rows>>
callVars == <<calls, sorted_as>>
vars == <<parser, pc, df, last, bankVars, creditVars, line_num, callVars, session_state>>

Dates == 1..MaxDate
Balances == 0..MaxBal
Amounts == 0..MaxAmt

LeumiAp1 == "extract_leumi_transactions_line_by_line"
LeumiClass == "LeumiParser.parse_pdf"
LeumiBank == "BankParser._parse_leumi"
HapoalimAp1 == "extract_transactions_from_pdf_hapoalim"
HapoalimClass == "HapoalimParser.parse_pdf"
HapoalimBank == "BankParser._parse_hapoalim"
DiscountAp1 == "extract_and_parse_discont_pdf"
DiscountClass == "DiscountParser.parse_pdf"
DiscountBank == "BankParser._parse_discount"

LeumiParsers == {LeumiAp1, LeumiClass, LeumiBank}
PlainParsers == {HapoalimAp1, HapoalimClass, HapoalimBank, DiscountAp1, DiscountClass, DiscountBank}
BankParsers == LeumiParsers \cup PlainParsers

\* A Dialect-B line as the Leumi code sees it:
\*   init  the balance captured by the "previous balance" caption search, if it matches
\*   tx    the groups captured by the transaction pattern, if it matches and the
\*         date and the balance parse: the date, the balance, the optional amount
\*   fp    how the floating-point sum of a delta and an amount that differ from each
\*         other by exactly one hundredth compares with the literal 0.01
TxFields == [Date : Dates, Balance : Balances, Amount : {None} \cup {Some(a) : a \in Amounts}]
\* A line with both init and tx is read as a caption line before the first anchor and
\* as a transaction line after it, so the lines with one of the two cover every case.
LeumiLines ==
    {l \in [init : {None} \cup {Some(b) : b \in Balances},
            tx : {None} \cup {Some(t) : t \in TxFields},
            fp : BOOLEAN] : l.init = None \/ l.tx = None}

\* A Dialect-A or Dialect-C line: the (date, balance) the matcher yields, if any.
PlainLines == {None} \cup {Some(p) : p \in [Date : Dates, Balance : Balances]}

\* The record of the last line read: its kind ("none" before the first line), the
\* balance and amount the pattern captured, previous_balance before the line and as
\* passed to the matcher (used), the classification, and whether a point was appended.
NoLine == [kind |-> "none", Balance |-> None, Amount |-> None, before |-> None, used |-> None,
           Debit |-> None, Credit |-> None, appended |-> FALSE]

\* ------------------------------------------------------- ap1.py, Leumi line
tolerance == 1

\* abs(x) <= tolerance in floating point: decided by the numbers when they are more or
\* less than one hundredth apart; at exactly one hundredth the sum is exact when the
\* delta is 0.0 and otherwise rounds to either side of the literal 0.01.
WithinTolerance(diff, x, fp) ==
    \/ Abs(x) < tolerance
    \/ Abs(x) = tolerance /\ (diff = 0 \/ fp)

\* A matcher that also classifies a line whose amount is absent or zero.
ClassifyZeroAmount(l, prev) ==
    IF l.tx = None THEN None
    ELSE
        LET t == Val(l.tx)
            diff == IF prev = None THEN 0 ELSE t.Balance - Val(prev)
            amt == IF t.Amount = None THEN 0 ELSE Val(t.Amount)
            can == prev # None
            isDebit == can /\ WithinTolerance(diff, diff + amt, l.fp)
            isCredit == can /\ ~isDebit /\ WithinTolerance(diff, diff - amt, l.fp)
        IN  Some([Date |-> t.Date, Balance |-> t.Balance,
                  Debit |-> IF isDebit THEN Some(amt) ELSE None,
                  Credit |-> IF isCredit THEN Some(amt) ELSE None])

\* parse_leumi_transaction_line_extracted_order_v2: None, or the date and balance of
\* the line with the debit / credit the balance delta reconciles with.
parse_leumi_transaction_line_extracted_order_v2(l, prev) ==
    IF l.tx = None THEN None
    ELSE
        LET t == Val(l.tx)
            diff == IF prev = None THEN 0 ELSE t.Balance - Val(prev)
            can == t.Amount # None /\ Val(t.Amount) # 0 /\ prev # None
            isDebit == can /\ WithinTolerance(diff, diff + Val(t.Amount), l.fp)
            isCredit == can /\ ~isDebit /\ WithinTolerance(diff, diff - Val(t.Amount), l.fp)
        IN  Some([Date |-> t.Date, Balance |-> t.Balance,
                  Debit |-> IF isDebit THEN t.Amount ELSE None,
                  Credit |-> IF isCredit THEN t.Amount ELSE None])

\* The "first anchor" step (ap1.py 340-361) on a line the caption search did not take:
\* the balance previous_balance holds when the line is then parsed for real.
FirstAnchor(l, prev, found) ==
    IF ~found /\ prev = None /\ parse_leumi_transaction_line_extracted_order_v2(l, None) # None
    THEN Some(Val(l.tx).Balance)
    ELSE prev

\* A collector that records every parsed line.
AlwaysRecord(parsed, prev) == TRUE

\* ap1.py 374: whether the parsed line is a balance point to record.
ShouldRecord(parsed, prev) ==
    parsed.Debit # None \/ parsed.Credit # None \/ prev = None

\* ap1.py 382-383 and 504-505: a point equal to the last one recorded is not recorded again.
AppendIfNew(txs, p) ==
    IF txs = <<>> \/ txs[Len(txs)].Date # p.Date \/ txs[Len(txs)].Balance # p.Balance
    THEN Append(txs, p)
    ELSE txs

\* An update that moves previous_balance only when the line was recorded.
KeepPrevious(parsed, prev, recorded) == IF recorded THEN Some(parsed.Balance) ELSE prev

\* ap1.py 386-393: previous_balance after a parsed line.
AdvancePrevious(parsed, prev, recorded) == Some(parsed.Balance)

\* l.fp is read only when a delta and the amount are exactly one hundredth apart.
ReadsFp(l, prev) ==
    /\ l.tx # None /\ prev # None
    /\ Val(l.tx).Amount # None
    /\ Val(l.tx).Balance # Val(prev)
    /\ \/ Abs(Val(l.tx).Balance - Val(prev) + Val(Val(l.tx).Amount)) = tolerance
       \/ Abs(Val(l.tx).Balance - Val(prev) - Val(Val(l.tx).Amount)) = tolerance

\* ap1.py 333-394: one line of a page in extract_leumi_transactions_line_by_line.
LeumiAp1Line(l) ==
    /\ parser = LeumiAp1
    /\ pc = "run"
    /\ Len(transactions) < MaxTx
    /\ l.fp \/ ReadsFp(l, previous_balance)
    /\ IF ~found_first_balance /\ l.init # None
       THEN \* the caption line: a balance forward, not a transaction
            /\ previous_balance' = l.init
            /\ found_first_balance' = TRUE
            /\ transactions' = transactions
            /\ last' = [NoLine EXCEPT !.kind = "caption", !.Balance = l.init,
                                      !.before = previous_balance]
       ELSE LET prev1 == FirstAnchor(l, previous_balance, found_first_balance)
                parsed == parse_leumi_transaction_line_extracted_order_v2(l, prev1)
            IN  /\ found_first_balance' = (found_first_balance \/ prev1 # previous_balance)
                /\ IF parsed = None
                   THEN /\ previous_balance' = prev1
                        /\ transactions' = transactions
                        /\ last' = [NoLine EXCEPT !.kind = "nomatch", !.before = previous_balance]
                   ELSE LET p == Val(parsed)
                            rec == ShouldRecord(p, prev1)
                            txs == IF rec
                                   THEN AppendIfNew(transactions, [Date |-> p.Date, Balance |-> p.Balance])
                                   ELSE transactions
                        IN  /\ transactions' = txs
                            /\ previous_balance' = AdvancePrevious(p, prev1, rec)
                            /\ last' = [kind |-> "tx", Balance |-> Some(p.Balance),
                                        Amount |-> Val(l.tx).Amount,
                                        before |-> previous_balance, used |-> prev1,
                                        Debit |-> p.Debit, Credit |-> p.Credit,
                                        appended |-> (txs # transactions)]
    /\ UNCHANGED <<session_state, callVars, line_num, parser, pc, df, creditVars>>

\* ---------------------------------- LeumiParser and BankParser._parse_leumi
\* LeumiParser._parse_line (and the body of BankParser._parse_leumi's loop): the
\* transaction a line yields, if any. previous_balance is passed in and not read.
LeumiParser_parse_line(l, prev) ==
    IF l.tx = None THEN None
    ELSE IF Val(l.tx).Amount = None \/ Val(Val(l.tx).Amount) = 0 THEN None
    ELSE Some([Date |-> Val(l.tx).Date, Balance |-> Val(l.tx).Balance])

\* leumi_parser.py 39-43, bank_parser.py 114-141.
LeumiClassLine(l) ==
    /\ parser \in {LeumiClass, LeumiBank}
    /\ pc = "run"
    /\ Len(transactions) < MaxTx
    /\ l.fp /\ l.init = None
    /\ LET t == LeumiParser_parse_line(l, previous_balance)
       IN  /\ transactions' = IF t = None THEN transactions ELSE Append(transactions, Val(t))
           /\ previous_balance' = IF t = None THEN previous_balance ELSE Some(Val(t).Balance)
           /\ last' = IF l.tx = None
                      THEN [NoLine EXCEPT !.kind = "nomatch", !.before = previous_balance]
                      ELSE [kind |-> "tx", Balance |-> Some(Val(l.tx).Balance),
                            Amount |-> Val(l.tx).Amount,
                            before |-> previous_balance, used |-> previous_balance,
                            Debit |-> None, Credit |-> None, appended |-> (t # None)]
    /\ UNCHANGED <<session_state, callVars, line_num, parser, pc, found_first_balance, df, creditVars>>

\* ------------------------------------------- Hapoalim and Discount parsers
\* One line of a Dialect-A or Dialect-C document: a matched line is collected;
\* extract_and_parse_discont_pdf (ap1.py 504) skips a repeat of the last point.
PlainLine(l) ==
    /\ parser \in PlainParsers
    /\ pc = "run"
    /\ Len(transactions) < MaxTx
    /\ transactions' =
          IF l = None THEN transactions
          ELSE IF parser = DiscountAp1 THEN AppendIfNew(transactions, Val(l))
          ELSE Append(transactions, Val(l))
    /\ last' = [NoLine EXCEPT !.kind = IF l = None THEN "nomatch" ELSE "plain",
                              !.appended = (transactions' # transactions)]
    /\ UNCHANGED <<session_state, callVars, line_num, parser, pc, previous_balance, found_first_balance, df, creditVars>>

\* A page loop that starts every page without a previous balance.
ResetAtPage(prev) == None

\* The page loop moves to the next page (ap1.py 322, leumi_parser.py 33,
\* bank_parser.py 108): previous_balance is set before the loop and not inside it.
CarryAcrossPages(prev) == prev
NextPage ==
    /\ parser \in LeumiParsers
    /\ pc = "run"
    /\ previous_balance' = CarryAcrossPages(previous_balance)
    /\ last' = [NoLine EXCEPT !.kind = "page", !.before = previous_balance]
    /\ UNCHANGED <<session_state, callVars, line_num, parser, pc, transactions, found_first_balance, df, creditVars>>

\* ------------------------------------------------------ document assemblers
IsSortedByDate(q) == \A i \in 1..(Len(q) - 1) : q[i].Date <= q[i + 1].Date

\* df.sort_values(by='Date'): pandas sorts with kind='quicksort', which keeps no order
\* among rows of equal date; every arrangement in ascending date order is an outcome.
sort_values_by_Date(s) ==
    {q \in {[i \in 1..Len(s) |-> s[p[i]]] : p \in Permutations(1..Len(s))} : IsSortedByDate(q)}

\* df.sort_values(by=['Date', 'Balance']): rows that tie on both keys are equal rows.
sort_values_by_Date_Balance(s) ==
    CHOOSE q \in {[i \in 1..Len(s) |-> s[p[i]]] : p \in Permutations(1..Len(s))} :
        \A i \in 1..(Len(s) - 1) :
            \/ q[i].Date < q[i + 1].Date
            \/ q[i].Date = q[i + 1].Date /\ q[i].Balance <= q[i + 1].Balance

\* A frame from which no row is dropped.
KeepAllRows(s) == s

\* df.drop_duplicates(subset='Date', keep='last'): a row stays when no later row has its date.
drop_duplicates_keep_last(s) ==
    LET keep(i) == \A j \in (i + 1)..Len(s) : s[j].Date # s[i].Date
        F[i \in 0..Len(s)] ==
            IF i = 0 THEN <<>>
            ELSE IF keep(i) THEN Append(F[i - 1], s[i]) ELSE F[i - 1]
    IN  F[Len(s)]

\* df.groupby('Date')['Balance'].last().reset_index(): one row per date, dates
\* ascending, with the balance of the last row of that date in the frame.
RECURSIVE GroupRows(_, _)
GroupRows(s, D) ==
    IF D = {} THEN <<>>
    ELSE LET d == CHOOSE x \in D : \A y \in D : x <= y
             i == CHOOSE k \in DOMAIN s : s[k].Date = d /\ \A j \in DOMAIN s : s[j].Date = d => j <= k
         IN  <<[Date |-> d, Balance |-> s[i].Balance]>> \o GroupRows(s, D \ {d})
groupby_Date_last(s) == GroupRows(s, {s[i].Date : i \in DOMAIN s})

\* BaseBankParser.create_dataframe (HapoalimParser, LeumiParser, DiscountParser).
create_dataframe(txs) ==
    IF txs = <<>> THEN {<<>>}
    ELSE {drop_duplicates_keep_last(q) : q \in sort_values_by_Date(txs)}

\* BankParser._create_dataframe.
BankParser_create_dataframe(txs) ==
    IF txs = <<>> THEN {<<>>}
    ELSE UNION {sort_values_by_Date(groupby_Date_last(q)) : q \in sort_values_by_Date(txs)}

\* ap1.py 160-176, the tail of extract_transactions_from_pdf_hapoalim.
hapoalim_dataframe(txs) ==
    IF txs = <<>> THEN {<<>>}
    ELSE sort_values_by_Date(drop_duplicates_keep_last(sort_values_by_Date_Balance(txs)))

\* ap1.py 405-416 and 518-529, the tails of the Leumi and Discount extractors.
groupby_dataframe(txs) ==
    IF txs = <<>> THEN {<<>>}
    ELSE {groupby_Date_last(q) : q \in sort_values_by_Date(txs)}

Assemble(p, txs) ==
    IF p \in {HapoalimClass, LeumiClass, DiscountClass} THEN create_dataframe(txs)
    ELSE IF p \in {HapoalimBank, LeumiBank, DiscountBank} THEN BankParser_create_dataframe(txs)
    ELSE IF p = HapoalimAp1 THEN hapoalim_dataframe(txs)
    ELSE groupby_dataframe(txs)

\* The document is exhausted: the assembler builds the table and returns it.
Finish ==
    /\ parser \in BankParsers
    /\ pc = "run"
    /\ \E r \in Assemble(parser, transactions) : df' = r
    /\ pc' = "done"
    /\ UNCHANGED <<session_state, callVars, line_num, parser, transactions, previous_balance, found_first_balance, last, creditVars>>

\* ------------------------------------------------------------ specification
InitBank ==
    /\ parser \in BankParsers
    /\ pc = "run"
    /\ transactions = <<>>
    /\ previous_balance = None
    /\ found_first_balance = FALSE
    /\ df = <<>>
    /\ last = NoLine
    /\ current_section = None
    /\ current_entry = None
    /\ last_line_was_id = FALSE
    /\ potential_bank_continuation_candidate = FALSE
    /\ extracted_rows = <<>>
    /\ line_num = None
    /\ calls = <<>>
    /\ sorted_as = <<>>
    /\ session_state = None

NextBank ==
    \/ \E l \in LeumiLines : LeumiAp1Line(l)
    \/ \E l \in LeumiLines : LeumiClassLine(l)
    \/ \E l \in PlainLines : PlainLine(l)
    \/ NextPage
    \/ Finish

SpecBank == InitBank /\ [][NextBank]_vars

\* ============================================================ credit report
\* Hebrew text is written in Latin letters: "osh" is the section name of a current
\* account, "halvaa" a loan, "mashkanta" a mortgage, "misgeret" a credit line,
\* "acher" other; "baam" is the company suffix (Ltd.).  Amounts are in hundredths.
CreditAp1 == "extract_credit_data_final_v13"
CreditClass == "CreditParser.parse_pdf"
CreditParsers == {CreditAp1, CreditClass}

\* ap1.py 654-660: header keyword -> section name.
section_patterns ==
    ("cheshbon over vashav" :> "osh") @@ ("halvaa" :> "halvaa") @@ ("mashkanta" :> "mashkanta")
        @@ ("misgeret ashrai mitchadeshet" :> "misgeret") @@ ("acher" :> "acher")

\* credit_parser.py 23-28: the same table without the catch-all entry.
CreditParser_section_patterns ==
    ("cheshbon over vashav" :> "osh") @@ ("halvaa" :> "halvaa") @@ ("mashkanta" :> "mashkanta")
        @@ ("misgeret ashrai mitchadeshet" :> "misgeret")

\* ap1.py 539-542 and credit_parser.py 17-22, the words that mark a creditor name.
BANK_KEYWORDS_CR ==
    {"bank", "baam", "igud", "discount", "leumi", "hapoalim", "mizrahi", "tefahot",
     "habeinleumi", "mercantile", "otzar", "hahayal", "yerushalayim", "mimun", "yashir",
     "kartisey", "ashrai", "max", "finansim", "cal", "isracard", "poalim", "beinleumi"}
bank_keywords == BANK_KEYWORDS_CR \ {"poalim", "beinleumi"}

\* ap1.py 771.
common_continuations ==
    {"leyisrael", "baam", "umashkantaot", "nadlan", "discount", "harishon", "finansim",
     "igud", "ashrai"}

\* The numbers a report line may carry: 12.00 (whole and below 500) and 60,000.00.
CreditNumbers == {1200, 6000000}

\* The texts of the lines without digits that are none of the above: "bank leumi",
\* "baam" and "max".
NameTexts == {<<"bank", "leumi">>, <<"baam">>, <<"max">>}

\* The header keywords of the report lines: one section of each column layout.
HeaderKeywords == {"cheshbon over vashav", "halvaa", "acher"}

\* A report line after normalisation, by what the tests of the two parsers see in it:
\*   empty    nothing is left of the line
\*   keyword  the section-header keyword a short line contains, "" if none
\*   footer   the line starts with the totals caption or holds the page caption
\*   number   the first number in the line, if the line has a digit
\*   pure     the line is that number and nothing else
\*   id       the line starts with the XX- prefix
\*   noise    the line is a column-header word or a lone punctuation mark
\*   phrase   the line holds the "total sum" phrase
\*   words    the words of the line; "XX" stands for an XX- token with what follows it
BlankLine == [empty |-> FALSE, keyword |-> "", footer |-> FALSE, number |-> None, pure |-> FALSE,
              id |-> FALSE, noise |-> FALSE, phrase |-> FALSE, words |-> <<>>]
CreditLines ==
    {[BlankLine EXCEPT !.empty = TRUE],
     [BlankLine EXCEPT !.footer = TRUE],
     [BlankLine EXCEPT !.noise = TRUE],
     [BlankLine EXCEPT !.phrase = TRUE],
     [BlankLine EXCEPT !.id = TRUE, !.words = <<"XX">>],
     [BlankLine EXCEPT !.id = TRUE, !.words = <<"XX">>, !.number = Some(1200)],
     [BlankLine EXCEPT !.words = <<"bank", "leumi", "XX">>, !.number = Some(1200)]}
    \cup {[BlankLine EXCEPT !.keyword = k] : k \in HeaderKeywords}
    \cup {[BlankLine EXCEPT !.number = Some(n), !.pure = TRUE] : n \in CreditNumbers}
    \cup {[BlankLine EXCEPT !.words = w] : w \in NameTexts}

\* ------------------------------------------------------- creditor names
\* re.sub(r'\s*XX-[\w\d\-]+.*', '', text).strip(): the words before the XX- token.
RECURSIVE StripId(_)
StripId(ws) ==
    IF ws = <<>> \/ Head(ws) = "XX" THEN <<>> ELSE <<Head(ws)>> \o StripId(Tail(ws))

\* re.sub(r'\s+<word>$', '', text).strip(): a last word that follows another is cut.
StripLast(ws, word) ==
    IF Len(ws) >= 2 /\ ws[Len(ws)] = word THEN SubSeq(ws, 1, Len(ws) - 1) ELSE ws

\* The number of characters of a word, and of words joined by single spaces.
WordLen(w) ==
    CASE w = "bank" -> 3 [] w = "max" -> 3 [] w = "baam" -> 4
      [] w = "leumi" -> 5 [] OTHER -> 6
RECURSIVE TextLen(_)
TextLen(ws) ==
    IF ws = <<>> THEN 0
    ELSE IF Len(ws) = 1 THEN WordLen(ws[1])
    ELSE WordLen(Head(ws)) + 1 + TextLen(Tail(ws))

HasWordIn(ws, S) == \E i \in DOMAIN ws : ws[i] \in S
HasPhrase(ws, ph) == \E i \in 0..(Len(ws) - Len(ph)) : SubSeq(ws, i + 1, i + Len(ph)) = ph
EndsWithBaam(ws) == ws # <<>> /\ ws[Len(ws)] = "baam"

\* text.replace(' baam baam', ' baam'): left to right, a "baam" that follows another
\* word and is followed by "baam" is written once.
RECURSIVE ReplaceDoubleBaam(_, _)
ReplaceDoubleBaam(ws, i) ==
    IF i > Len(ws) THEN <<>>
    ELSE IF i >= 2 /\ i < Len(ws) /\ ws[i] = "baam" /\ ws[i + 1] = "baam"
         THEN <<ws[i]>> \o ReplaceDoubleBaam(ws, i + 2)
         ELSE <<ws[i]>> \o ReplaceDoubleBaam(ws, i + 1)

\* ap1.py 554-574: the creditor name written to the row.
bank_name_final(bank_name_raw) ==
    LET cleaned == StripLast(StripLast(StripId(bank_name_raw), "baam"), "bank")
        name == IF cleaned # <<>> THEN cleaned ELSE bank_name_raw
        is_likely_bank ==
            HasWordIn(name, {"leumi", "hapoalim", "discount", "mizrahi", "habeinleumi",
                             "mercantile", "yerushalayim", "igud", "tefahot"})
        is_card_company ==
            HasWordIn(name, {"max", "cal", "isracard"}) \/ HasPhrase(name, <<"mimun", "yashir">>)
    IN  IF is_likely_bank /\ ~EndsWithBaam(name) THEN Append(name, "baam")
        ELSE IF /\ is_card_company /\ ~EndsWithBaam(name)
                /\ \/ HasPhrase(name, <<"max", "it", "finansim">>)
                   \/ HasPhrase(name, <<"mimun", "yashir">>)
             THEN Append(name, "baam")
        ELSE name

\* credit_parser.py 133-144.
CreditParser_clean_bank_name(bank_name_raw) ==
    LET name == StripLast(StripId(bank_name_raw), "baam")
    IN  IF HasWordIn(name, {"bank", "leumi", "hapoalim", "discount"}) /\ ~EndsWithBaam(name)
        THEN Append(name, "baam")
        ELSE name

\* --------------------------------------------------------------- the flush
\* A flush that emits an entry with a single number.
AnyNumber(num_count) == num_count >= 1

\* ap1.py 583 and credit_parser.py 106: an entry needs two numbers to make a row.
EnoughNumbers(num_count) == num_count >= 2

\* A reading of the list that is one place off.
NthShifted(numbers, i) == IF i + 1 <= Len(numbers) THEN Some(numbers[i + 1]) ELSE None

\* ap1.py 586-589: the i-th number of the entry, if it has that many.
Nth(numbers, i) == IF i <= Len(numbers) THEN Some(numbers[i]) ELSE None

\* ap1.py 548-640.  The numbers of an entry are floats, which clean_credit_number
\* reads back unchanged.  val1 == int(val1) and val1 < 500, in hundredths, is
\* val1 % 100 = 0 and val1 < 50000.
process_entry_final_cr(entry_data, section, all_rows_list) ==
    IF entry_data = None THEN all_rows_list
    ELSE IF Val(entry_data).bank = <<>> \/ Val(entry_data).numbers = <<>> THEN all_rows_list
    ELSE
        LET numbers == Val(entry_data).numbers
            num_count == Len(numbers)
            val1 == Nth(numbers, 1)
            val2 == Nth(numbers, 2)
            val3 == Nth(numbers, 3)
            val4 == Nth(numbers, 4)
            blank == [type |-> section, bank |-> bank_name_final(Val(entry_data).bank),
                      limit |-> None, original |-> None, outstanding |-> None, unpaid |-> None]
            row ==
                IF section \in {Some("osh"), Some("misgeret")}
                THEN [blank EXCEPT !.limit = val1, !.outstanding = val2,
                                   !.unpaid = IF num_count > 2 THEN val3 ELSE Some(0)]
                ELSE IF section \in {Some("halvaa"), Some("mashkanta")}
                THEN IF num_count >= 3
                     THEN IF Val(val1) % 100 = 0 /\ Val(val1) < 50000 /\ num_count >= 4
                          THEN [blank EXCEPT !.original = val2, !.outstanding = val3, !.unpaid = val4]
                          ELSE [blank EXCEPT !.original = val1, !.outstanding = val2, !.unpaid = val3]
                     ELSE IF num_count = 2
                     THEN [blank EXCEPT !.original = val1, !.outstanding = val2, !.unpaid = Some(0)]
                     ELSE blank
                ELSE [blank EXCEPT !.original = val1, !.outstanding = val2,
                                   !.unpaid = IF num_count > 2 THEN val3 ELSE Some(0)]
        IN  IF EnoughNumbers(num_count) THEN Append(all_rows_list, row) ELSE all_rows_list

\* credit_parser.py 104-131.
CreditParser_process_entry(entry_data, section, all_rows_list) ==
    IF entry_data = None THEN all_rows_list
    ELSE IF Val(entry_data).bank = <<>> \/ ~EnoughNumbers(Len(Val(entry_data).numbers))
    THEN all_rows_list
    ELSE
        LET numbers == Val(entry_data).numbers
            blank == [type |-> section, bank |-> CreditParser_clean_bank_name(Val(entry_data).bank),
                      limit |-> None, original |-> None, outstanding |-> None, unpaid |-> None]
            third == IF Len(numbers) > 2 THEN Nth(numbers, 3) ELSE Some(0)
            row ==
                IF section \in {Some("osh"), Some("misgeret")}
                THEN [blank EXCEPT !.limit = Nth(numbers, 1), !.outstanding = Nth(numbers, 2),
                                   !.unpaid = third]
                ELSE IF section \in {Some("halvaa"), Some("mashkanta")}
                THEN [blank EXCEPT !.original = Nth(numbers, 1), !.outstanding = Nth(numbers, 2),
                                   !.unpaid = third]
                ELSE blank
        IN  Append(all_rows_list, row)

\* ------------------------------------------- ap1.py, one report line
\* The record of the last report line read: how the parser took it, the line,
\* whether a row was emitted while it was handled, and the number of lines read.
NoCreditLine == [kind |-> "none", line |-> BlankLine, flushed |-> FALSE, n |-> 0]

NewEntry(bank, numbers) == Some([bank |-> bank, numbers |-> numbers, processed |-> FALSE])

\* A test of the current entry that ignores the processed mark.
AnyEntry(entry) == entry # None

\* "if current_entry and not current_entry.get('processed', False)".
Unprocessed(entry) == entry # None /\ ~Val(entry).processed

\* A flush that files the row under the section of the header just read.
FlushUnderNewSection(entry, section, new_section, rows) ==
    IF Unprocessed(entry) THEN process_entry_final_cr(entry, new_section, rows) ELSE rows

\* ap1.py 681-682: the pending entry is processed under the section it was read in.
FlushAtHeader(entry, section, new_section, rows) ==
    IF Unprocessed(entry) THEN process_entry_final_cr(entry, section, rows) ELSE rows

\* A summary line that leaves the entry in place.
KeepAtFooter(entry) == entry

\* ap1.py 696: after a summary line there is no current entry.
ResetAtFooter(entry) == None

\* A number list without a cap.
AlwaysRoom(num_list) == TRUE

\* ap1.py 726: a number is appended only to a list of fewer than five numbers.
RoomForNumber(num_list) == Len(num_list) < 5

\* A number line that leaves the continuation flag as it was.
ContinuationKept(cont) == cont

\* ap1.py 738: a number line clears the continuation flag.
ContinuationAfterNumber(cont) == FALSE

\* Trailing text that never ends a block.
NeverEndsBlock(entry) == FALSE

\* ap1.py 794 and 806: the entry has numbers and was not processed yet.
HasUnprocessedNumbers(entry) ==
    entry # None /\ Val(entry).numbers # <<>> /\ ~Val(entry).processed

\* ap1.py 773: the text may continue a creditor name.
seems_like_continuation_text(cleaned_line) ==
    \/ cleaned_line # <<>> /\ cleaned_line[1] \in common_continuations
    \/ TextLen(cleaned_line) > 3 /\ Len(cleaned_line) >= 2

\* ap1.py 672-811: what one line does to the accumulator; the fields are the values
\* of the five variables after the line and the branch that handled it.
Ap1Step(l) ==
    LET same == [kind |-> "outside", section |-> current_section, entry |-> current_entry,
                 id |-> last_line_was_id, cont |-> potential_bank_continuation_candidate,
                 rows |-> extracted_rows]
        pending == IF Unprocessed(current_entry)
                   THEN process_entry_final_cr(current_entry, current_section, extracted_rows)
                   ELSE extracted_rows
        endOfBlock ==
            IF HasUnprocessedNumbers(current_entry)
            THEN [same EXCEPT !.rows = pending,
                              !.entry = Some([Val(current_entry) EXCEPT !.processed = TRUE])]
            ELSE same
        cleaned_line == StripId(l.words)
        after == ContinuationAfterNumber(potential_bank_continuation_candidate)
    IN  IF l.empty THEN [same EXCEPT !.kind = "empty", !.cont = FALSE]
        ELSE IF l.keyword \in DOMAIN section_patterns
        THEN [kind |-> "header", section |-> Some(section_patterns[l.keyword]), entry |-> None,
              id |-> FALSE, cont |-> FALSE,
              rows |-> FlushAtHeader(current_entry, current_section,
                                     Some(section_patterns[l.keyword]), extracted_rows)]
        ELSE IF l.footer
        THEN [same EXCEPT !.kind = "footer", !.entry = ResetAtFooter(current_entry), !.id = FALSE, !.cont = FALSE,
                          !.rows = pending]
        ELSE IF current_section = None THEN same
        ELSE IF l.number # None
        THEN IF current_entry = None
             THEN [same EXCEPT !.kind = "number", !.id = FALSE, !.cont = after]
             ELSE IF last_line_was_id
             THEN [same EXCEPT !.kind = "number", !.id = FALSE, !.cont = after, !.rows = pending,
                               !.entry = NewEntry(Val(current_entry).bank, <<Val(l.number)>>)]
             ELSE IF RoomForNumber(Val(current_entry).numbers)
             THEN [same EXCEPT !.kind = "number", !.id = FALSE, !.cont = after,
                               !.entry = Some([Val(current_entry) EXCEPT
                                   !.numbers = Append(Val(current_entry).numbers, Val(l.number))])]
             ELSE [same EXCEPT !.kind = "number", !.id = FALSE, !.cont = after]
        ELSE IF l.id THEN [same EXCEPT !.kind = "id", !.id = TRUE, !.cont = FALSE]
        ELSE IF l.noise THEN [same EXCEPT !.kind = "noise", !.id = FALSE, !.cont = FALSE]
        ELSE IF l.phrase THEN [endOfBlock EXCEPT !.kind = "phrase", !.id = FALSE, !.cont = FALSE]
        ELSE IF /\ potential_bank_continuation_candidate /\ current_entry # None
                /\ seems_like_continuation_text(cleaned_line)
        THEN [same EXCEPT !.kind = "continuation", !.id = FALSE, !.cont = TRUE,
                          !.entry = Some([Val(current_entry) EXCEPT
                              !.bank = ReplaceDoubleBaam(Val(current_entry).bank \o cleaned_line, 1)])]
        ELSE IF TextLen(cleaned_line) > 3 /\ HasWordIn(cleaned_line, BANK_KEYWORDS_CR)
        THEN [same EXCEPT !.kind = "name", !.id = FALSE, !.cont = TRUE, !.rows = pending,
                          !.entry = NewEntry(cleaned_line, <<>>)]
        ELSE [endOfBlock EXCEPT !.kind = "text", !.id = FALSE, !.cont = FALSE]

CreditAp1Line(l) ==
    /\ parser = CreditAp1
    /\ pc = "run"
    /\ last.n < MaxLines
    /\ LET step == Ap1Step(l)
       IN  /\ current_section' = step.section
           /\ current_entry' = step.entry
           /\ last_line_was_id' = step.id
           /\ potential_bank_continuation_candidate' = step.cont
           /\ extracted_rows' = step.rows
           /\ last' = [kind |-> step.kind, line |-> l, flushed |-> (step.rows # extracted_rows),
                       n |-> last.n + 1]
    /\ UNCHANGED <<session_state, callVars, line_num, parser, pc, df, bankVars>>

\* --------------------------------------- CreditParser, one report line
\* credit_parser.py 99-102.
CreditParser_is_bank_name(l) == HasWordIn(StripId(l.words), bank_keywords)

\* credit_parser.py 43-59 with _identify_section and _process_line, on the local
\* variables current_section, current_entry and extracted_rows of parse_pdf.
ClassStepOn(l, section, entry, rows) ==
    LET same == [kind |-> "outside", section |-> section, entry |-> entry, rows |-> rows]
        flushed == IF entry # None
                   THEN CreditParser_process_entry(entry, section, rows)
                   ELSE rows
    IN  IF l.empty THEN [same EXCEPT !.kind = "empty"]
        ELSE IF l.keyword \in DOMAIN CreditParser_section_patterns
        THEN [kind |-> "header", section |-> Some(CreditParser_section_patterns[l.keyword]),
              entry |-> None, rows |-> flushed]
        ELSE IF section = None THEN same
        ELSE IF l.pure
        THEN IF entry = None THEN [same EXCEPT !.kind = "number"]
             ELSE [same EXCEPT !.kind = "number",
                               !.entry = Some([Val(entry) EXCEPT
                                   !.numbers = Append(Val(entry).numbers, Val(l.number))])]
        ELSE IF CreditParser_is_bank_name(l)
        THEN [same EXCEPT !.kind = "name", !.rows = flushed, !.entry = NewEntry(l.words, <<>>)]
        ELSE [same EXCEPT !.kind = "text"]

ClassStep(l) == ClassStepOn(l, current_section, current_entry, extracted_rows)

CreditClassLine(l) ==
    /\ parser = CreditClass
    /\ pc = "run"
    /\ last.n < MaxLines
    /\ LET step == ClassStep(l)
       IN  /\ current_section' = step.section
           /\ current_entry' = step.entry
           /\ extracted_rows' = step.rows
           /\ last' = [kind |-> step.kind, line |-> l, flushed |-> (step.rows # extracted_rows),
                       n |-> last.n + 1]
    /\ UNCHANGED <<session_state, callVars, line_num, parser, pc, df, bankVars, last_line_was_id,
                   potential_bank_continuation_candidate>>

\* --------------------------------------------------- the table of a report
\* df[col].fillna(0) on the unpaid column (ap1.py 845-846).
fillna_unpaid(rows) ==
    [i \in DOMAIN rows |-> IF rows[i].unpaid = None THEN [rows[i] EXCEPT !.unpaid = Some(0)]
                           ELSE rows[i]]

\* df.dropna(subset=<the four numeric columns>, how='all') (ap1.py 849).
dropna_all(rows) ==
    SelectSeq(rows, LAMBDA r : ~(r.limit = None /\ r.original = None
                                 /\ r.outstanding = None /\ r.unpaid = None))

\* An end of document that drops the entry still open.
NoFlushAtEnd(entry, section, rows) == rows

\* ap1.py 818-820: the entry still open after the last line is processed.
FlushAtEnd(entry, section, rows) ==
    IF Unprocessed(entry) THEN process_entry_final_cr(entry, section, rows) ELSE rows

\* ap1.py 818-853: the last entry is processed and the table is built.
CreditAp1Finish ==
    /\ parser = CreditAp1
    /\ pc = "run"
    /\ LET rows == FlushAtEnd(current_entry, current_section, extracted_rows)
       IN  /\ extracted_rows' = rows
           /\ df' = IF rows = <<>> THEN <<>> ELSE dropna_all(fillna_unpaid(rows))
           /\ last' = [kind |-> "eof", line |-> BlankLine, flushed |-> (rows # extracted_rows),
                       n |-> last.n]
    /\ pc' = "done"
    /\ UNCHANGED <<session_state, callVars, line_num, parser, bankVars, current_section, current_entry, last_line_was_id,
                   potential_bank_continuation_candidate>>

\* credit_parser.py 61-69 and 146-164.
CreditClassFinish ==
    /\ parser = CreditClass
    /\ pc = "run"
    /\ LET rows == IF current_entry # None
                   THEN CreditParser_process_entry(current_entry, current_section, extracted_rows)
                   ELSE extracted_rows
       IN  /\ extracted_rows' = rows
           /\ df' = rows
           /\ last' = [kind |-> "eof", line |-> BlankLine, flushed |-> (rows # extracted_rows),
                       n |-> last.n]
    /\ pc' = "done"
    /\ UNCHANGED <<session_state, callVars, line_num, parser, bankVars, current_section, current_entry, last_line_was_id,
                   potential_bank_continuation_candidate>>

InitCredit ==
    /\ parser \in CreditParsers
    /\ pc = "run"
    /\ transactions = <<>>
    /\ previous_balance = None
    /\ found_first_balance = FALSE
    /\ df = <<>>
    /\ last = NoCreditLine
    /\ current_section = None
    /\ current_entry = None
    /\ last_line_was_id = FALSE
    /\ potential_bank_continuation_candidate = FALSE
    /\ extracted_rows = <<>>
    /\ line_num = None
    /\ calls = <<>>
    /\ sorted_as = <<>>
    /\ session_state = None

NextCredit ==
    \/ \E l \in CreditLines : CreditAp1Line(l)
    \/ \E l \in CreditLines : CreditClassLine(l)
    \/ CreditAp1Finish
    \/ CreditClassFinish

SpecCredit == InitCredit /\ [][NextCredit]_vars

\* ============================================================== error paths
\* What every entry point does when the document cannot be opened, when the text
\* of a page cannot be extracted and when the handling of a line raises.  A line
\* is reduced to whether a balance point (a row, for the credit report) is
\* collected from it; the points carry the line number as their date.
EntryPoints == BankParsers \cup CreditParsers

\* Largest number of lines and failures of a document on the error paths.
MaxErrLines == 4

\* The entry points whose page loop body is a try block of its own
\* (ap1.py 97-156, 323-399, 491-512, 668-815).
PageGuarded == {HapoalimAp1, LeumiAp1, DiscountAp1, CreditAp1}

\* Their except clauses that format line_num + 1 (ap1.py 155, 398, 814).
HandlerReadsLineNum == {HapoalimAp1, LeumiAp1, CreditAp1}

\* The entry points whose page loop lies inside a try block that returns an empty
\* table: all but the two Hapoalim ones with fitz.open alone in the try
\* (ap1.py 82-86, hapoalim_parser.py 22-26).
DocumentGuarded == EntryPoints \ {HapoalimAp1, HapoalimClass}

ErrLines == {"point", "other"}

NoErrLine == [kind |-> "none", line |-> "", n |-> 0]

\* An open failure that reaches the caller.
OpenFailureRaised(p) == "raised"

\* Every entry point catches the failure of fitz.open / pdfplumber.open and
\* returns an empty table (hapoalim_parser.py 22-26, credit_parser.py 65-67, ...).
OnOpenFailure(p) == "empty"

\* Where an exception raised inside the page loop ends up: in the except clause of
\* the page (the loop goes on with the next page), unless that clause itself
\* raises on an unbound line_num; else in the except clause around the document
\* (an empty table is returned); else at the caller.
OnFailure(p, bound) ==
    IF p \in PageGuarded /\ (p \notin HandlerReadsLineNum \/ bound) THEN "next page"
    ELSE IF p \in DocumentGuarded THEN "empty"
    ELSE "raised"

\* The row a credit-report line contributes on the error paths.
ErrRow == [type |-> Some("halvaa"), bank |-> <<"max">>, limit |-> None,
           original |-> Some(6000000), outstanding |-> Some(6000000), unpaid |-> Some(0)]

\* The state after the outcome of a failure; line_num and last are set by the caller.
Fail(outcome) ==
    /\ pc' = CASE outcome = "next page" -> "skip"
               [] outcome = "empty" -> "done"
               [] OTHER -> "raised"
    /\ df' = <<>>
    /\ UNCHANGED <<parser, bankVars, creditVars, callVars, session_state>>

\* fitz.open / pdfplumber.open returns the document.
Open ==
    /\ pc = "open"
    /\ pc' = "run"
    /\ last' = [last EXCEPT !.kind = "opened"]
    /\ UNCHANGED <<parser, df, bankVars, creditVars, line_num, callVars, session_state>>

\* fitz.open / pdfplumber.open raises.
OpenFails ==
    /\ pc = "open"
    /\ last' = [last EXCEPT !.kind = "open fails"]
    /\ Fail(OnOpenFailure(parser))
    /\ UNCHANGED line_num

\* The document has the line l at this place.  The line loop handles it, unless
\* the except clause of the page has been entered: then the loop of this page is
\* over and the line is never read.
ErrLine(l) ==
    /\ pc \in {"run", "skip"}
    /\ last.n < MaxErrLines
    /\ IF pc = "skip"
       THEN /\ last' = [kind |-> "unread", line |-> l, n |-> last.n + 1]
            /\ UNCHANGED <<bankVars, creditVars, line_num>>
       ELSE /\ last' = [kind |-> "read", line |-> l, n |-> last.n + 1]
            /\ line_num' = Some(last.n)
            /\ IF l = "point" /\ parser \in BankParsers
               THEN /\ transactions' =
                          Append(transactions, [Date |-> last.n + 1, Balance |-> 0])
                    /\ UNCHANGED <<previous_balance, found_first_balance, creditVars>>
               ELSE IF l = "point"
               THEN /\ extracted_rows' = Append(extracted_rows, ErrRow)
                    /\ UNCHANGED <<bankVars, current_section, current_entry,
                                   last_line_was_id, potential_bank_continuation_candidate>>
               ELSE UNCHANGED <<bankVars, creditVars>>
    /\ UNCHANGED <<parser, pc, df, callVars, session_state>>

\* The handling of a line raises.
LineFails ==
    /\ pc = "run"
    /\ last.n < MaxErrLines
    /\ last' = [kind |-> "line fails", line |-> "", n |-> last.n + 1]
    /\ line_num' = Some(last.n)
    /\ Fail(OnFailure(parser, TRUE))

\* The next page begins and the extraction of its text raises.
PageFails ==
    /\ pc \in {"run", "skip"}
    /\ last.n < MaxErrLines
    /\ last' = [kind |-> "page fails", line |-> "", n |-> last.n + 1]
    /\ Fail(OnFailure(parser, line_num # None))
    /\ UNCHANGED line_num

\* The next page begins and its text is extracted.
ErrNextPage ==
    /\ pc = "skip"
    /\ pc' = "run"
    /\ last' = [last EXCEPT !.kind = "page"]
    /\ UNCHANGED <<parser, df, bankVars, creditVars, line_num, callVars, session_state>>

\* The document is exhausted and the table is built from what was collected.
ErrFinish ==
    /\ pc \in {"run", "skip"}
    /\ pc' = "done"
    /\ last' = [last EXCEPT !.kind = "eof"]
    /\ IF parser \in BankParsers
       THEN \E r \in Assemble(parser, transactions) : df' = r
       ELSE IF parser = CreditAp1
       THEN df' = IF extracted_rows = <<>> THEN <<>>
                  ELSE dropna_all(fillna_unpaid(extracted_rows))
       ELSE df' = extracted_rows
    /\ UNCHANGED <<parser, bankVars, creditVars, line_num, callVars, session_state>>

InitErrors ==
    /\ parser \in EntryPoints
    /\ pc = "open"
    /\ transactions = <<>>
    /\ previous_balance = None
    /\ found_first_balance = FALSE
    /\ df = <<>>
    /\ last = NoErrLine
    /\ current_section = None
    /\ current_entry = None
    /\ last_line_was_id = FALSE
    /\ potential_bank_continuation_candidate = FALSE
    /\ extracted_rows = <<>>
    /\ line_num = None
    /\ calls = <<>>
    /\ sorted_as = <<>>
    /\ session_state = None

NextErrors ==
    \/ Open
    \/ OpenFails
    \/ \E l \in ErrLines : ErrLine(l)
    \/ LineFails
    \/ PageFails
    \/ ErrNextPage
    \/ ErrFinish

SpecErrors == InitErrors /\ [][NextErrors]_vars

\* ============================================ two parses on one parser object
\* parse_pdf is called twice on one parser object, each call with the document it
\* was given; the calls advance a line at a time in any order, one after the other
\* or interleaved.
ClassParsers == {LeumiClass, HapoalimClass, DiscountClass, CreditClass}
Calls == {1, 2}
\* The longest document given to a call.
MaxCallLines == 3

\* The local variables of parse_pdf (leumi_parser.py 27-31, credit_parser.py 32-37,
\* hapoalim_parser.py 20, discount_parser.py 21) as the call begins.
NoLocals == [transactions |-> <<>>, previous_balance |-> None, current_section |-> None,
             current_entry |-> None, extracted_rows |-> <<>>]

\* The lines the documents are made of: two statement lines of one date with
\* different balances, or a creditor name and a number of a report.
CallLines(p) ==
    IF p = LeumiClass
    THEN {[init |-> None, fp |-> TRUE, tx |-> Some([Date |-> 1, Balance |-> b, Amount |-> Some(1)])]
            : b \in {1, 2}}
    ELSE IF p = CreditClass
    THEN {[BlankLine EXCEPT !.words = <<"bank", "leumi">>],
          [BlankLine EXCEPT !.number = Some(1200), !.pure = TRUE]}
    ELSE {Some([Date |-> 1, Balance |-> b]) : b \in {1, 2}}

\* The documents given to the calls: up to MaxCallLines lines, which in a report
\* follow the header of the section they are in.
CallDocs(p) ==
    LET body == UNION {[1..n -> CallLines(p)] : n \in 0..MaxCallLines}
    IN  IF p = CreditClass
        THEN {<<[BlankLine EXCEPT !.keyword = k]>> \o b : k \in {"cheshbon over vashav", "halvaa"}, b \in body}
        ELSE body

\* State kept in attributes of the parser object: every call uses the same place.
ParserObject(i) == 1

\* Where the state of call i is kept: in the local variables of its own activation.
ActivationOf(i) == i

\* The body of the line loop of parse_pdf on the local variables loc.
CallStep(p, loc, l) ==
    IF p = LeumiClass
    THEN LET t == LeumiParser_parse_line(l, loc.previous_balance)
         IN  IF t = None THEN loc
             ELSE [loc EXCEPT !.transactions = Append(@, Val(t)),
                              !.previous_balance = Some(Val(t).Balance)]
    ELSE IF p = CreditClass
    THEN LET step == ClassStepOn(l, loc.current_section, loc.current_entry, loc.extracted_rows)
         IN  [loc EXCEPT !.current_section = step.section, !.current_entry = step.entry,
                         !.extracted_rows = step.rows]
    ELSE IF l = None THEN loc
    ELSE [loc EXCEPT !.transactions = Append(@, Val(l))]

\* The rows a call has collected when its document is exhausted (credit_parser.py
\* 61-63 processes the last entry).
CallRows(p, loc) ==
    IF p # CreditClass THEN loc.transactions
    ELSE IF loc.current_entry # None
    THEN CreditParser_process_entry(loc.current_entry, loc.current_section, loc.extracted_rows)
    ELSE loc.extracted_rows

\* The tables the assembler can build from the rows.
CallTables(p, rows) == IF p = CreditClass THEN {rows} ELSE Assemble(p, rows)

\* Call i reads the next line of its document.
CallLine(i) ==
    /\ calls[i].pc = "run"
    /\ calls[i].pos < Len(calls[i].doc)
    /\ LET a == ActivationOf(i)
           l == calls[i].doc[calls[i].pos + 1]
       IN  calls' = [[calls EXCEPT ![i].pos = @ + 1]
                        EXCEPT ![a].locals = CallStep(parser, calls[a].locals, l)]
    /\ UNCHANGED <<parser, pc, df, last, bankVars, creditVars, line_num, sorted_as, session_state>>

\* Call i has read its document and returns the table.  sort_values is a function
\* of the frame it is given: a frame sorted before is arranged as it was then.
CallFinish(i) ==
    /\ calls[i].pc = "run"
    /\ calls[i].pos = Len(calls[i].doc)
    /\ LET rows == CallRows(parser, calls[ActivationOf(i)].locals)
       IN  IF rows \in DOMAIN sorted_as
           THEN /\ calls' = [calls EXCEPT ![i].pc = "done", ![i].df = sorted_as[rows]]
                /\ UNCHANGED sorted_as
           ELSE \E r \in CallTables(parser, rows) :
                   /\ calls' = [calls EXCEPT ![i].pc = "done", ![i].df = r]
                   /\ sorted_as' = [x \in DOMAIN sorted_as \cup {rows} |->
                                       IF x = rows THEN r ELSE sorted_as[x]]
    /\ UNCHANGED <<parser, pc, df, last, bankVars, creditVars, line_num, session_state>>

InitCalls ==
    /\ parser \in ClassParsers
    /\ pc = "run"
    /\ transactions = <<>>
    /\ previous_balance = None
    /\ found_first_balance = FALSE
    /\ df = <<>>
    /\ last = NoLine
    /\ current_section = None
    /\ current_entry = None
    /\ last_line_was_id = FALSE
    /\ potential_bank_continuation_candidate = FALSE
    /\ extracted_rows = <<>>
    /\ line_num = None
    /\ calls \in [Calls -> {[doc |-> d, pos |-> 0, pc |-> "run", locals |-> NoLocals, df |-> <<>>]
                              : d \in CallDocs(parser)}]
    /\ sorted_as = <<>>
    /\ session_state = None

NextCalls ==
    \/ \E i \in Calls : CallLine(i)
    \/ \E i \in Calls : CallFinish(i)

SpecCalls == InitCalls /\ [][NextCalls]_vars

\* ======================================================= Dialect A matchers
\* The three readers of a Hapoalim statement.  Of a line they see whether it ends
\* with a date and begins with a balance, and which caption phrase it contains:
\* "yitra lesof yom" (balance at end of day), "over vashav" (current account),
\* "tnuot bacheshbon" (account movements), "amud" (page), "sach hakol" (total),
\* "hodaa zo kolelet" (this notice includes), or none ("").
HapoalimParsers == {HapoalimAp1, HapoalimBank, HapoalimClass}
CaptionPhrases == {"yitra lesof yom", "over vashav", "tnuot bacheshbon", "amud",
                   "sach hakol", "hodaa zo kolelet"}
DialectALines ==
    {None} \cup {Some(p) : p \in [Date : Dates, Balance : Balances,
                                  phrase : CaptionPhrases \cup {""}]}

\* The phrases a reader rejects a line for: ap1.py 137, bank_parser.py 73-74;
\* HapoalimParser._parse_line (hapoalim_parser.py 40-69) compares with none.
skip_phrases(p) ==
    IF p = HapoalimAp1 THEN {"yitra lesof yom", "over vashav", "tnuot bacheshbon", "amud"}
    ELSE IF p = HapoalimBank THEN CaptionPhrases
    ELSE {}

\* The point a reader takes from a line, if any.
HapoalimMatch(p, l) ==
    IF l = None THEN None
    ELSE IF Val(l).phrase \in skip_phrases(p) THEN None
    ELSE Some([Date |-> Val(l).Date, Balance |-> Val(l).Balance])

\* One line of the statement (ap1.py 102-146, bank_parser.py 48-81,
\* hapoalim_parser.py 31-34).
HapoalimLine(l) ==
    /\ parser \in HapoalimParsers
    /\ pc = "run"
    /\ Len(transactions) < MaxTx
    /\ LET t == HapoalimMatch(parser, l)
       IN  /\ transactions' = IF t = None THEN transactions ELSE Append(transactions, Val(t))
           /\ last' = [kind |-> "dialect A", line |-> l, appended |-> (t # None)]
    /\ UNCHANGED <<session_state, callVars, line_num, parser, pc, previous_balance, found_first_balance, df,
                   creditVars>>

InitDialectA == InitBank /\ parser \in HapoalimParsers

NextDialectA ==
    \/ \E l \in DialectALines : HapoalimLine(l)
    \/ Finish

SpecDialectA == InitDialectA /\ [][NextDialectA]_vars

\* ===================================================== financial classifier
\* A ratio is written in hundredths.  The status is "yarok" (green), "tsahov"
\* (yellow) or "adom" (red), or None when the questions are still to be asked.
\* The thresholds are GREEN_MAX and YELLOW_MAX of CLASSIFICATION_THRESHOLDS
\* (config.py 20-23); src/analyzer/financial_analyzer.py imports them under the
\* name THRESHOLDS, which config.py does not define.
green_threshold == 100
yellow_threshold == 200
\* The largest ratio classified, in hundredths, and as many below zero.
MaxRatio == 250
Ratios == (0 - MaxRatio)..MaxRatio
Flags == {None, Some(TRUE), Some(FALSE)}

\* A comparison that puts the ratio 2.0 itself above the yellow band.
BelowYellowMax(ratio) == ratio < yellow_threshold

\* debt_to_income_ratio <= self.yellow_threshold (src/financial_analyzer.py 24).
AtMostYellowMax(ratio) == ratio <= yellow_threshold

\* The questions of the yellow band (src/financial_analyzer.py 25-35,
\* src/analyzer/financial_analyzer.py 51-88): the flags are compared with
\* "is True" and "is False".
ByFlags(collection, funds) ==
    IF collection = Some(TRUE) THEN Some("adom")
    ELSE IF collection = Some(FALSE) /\ funds = Some(TRUE) THEN Some("tsahov")
    ELSE IF collection = Some(FALSE) /\ funds = Some(FALSE) THEN Some("adom")
    ELSE None

\* FinancialAnalyzer.classify_financial_status of src/financial_analyzer.py.
classify_financial_status(ratio, collection_proceedings, can_raise_funds) ==
    IF ratio < green_threshold THEN Some("yarok")
    ELSE IF AtMostYellowMax(ratio) THEN ByFlags(collection_proceedings, can_raise_funds)
    ELSE Some("adom")

\* FinancialAnalyzer.classify_financial_status of src/analyzer/financial_analyzer.py:
\* the 'status' of the dictionary it returns, or None.
analyzer_classify_financial_status(ratio, has_collection, can_raise_funds) ==
    IF ratio < green_threshold THEN Some("yarok")
    ELSE IF ratio > yellow_threshold THEN Some("adom")
    ELSE ByFlags(has_collection, can_raise_funds)

Implementations == {"financial_analyzer", "analyzer.financial_analyzer"}

\* One of the two classifiers is asked about the input.
Classify(impl) ==
    /\ pc = "ask"
    /\ impl \notin DOMAIN df
    /\ df' = df @@ (impl :>
                IF impl = "financial_analyzer"
                THEN classify_financial_status(last.ratio, last.collection, last.funds)
                ELSE analyzer_classify_financial_status(last.ratio, last.collection, last.funds))
    /\ UNCHANGED <<parser, pc, last, bankVars, creditVars, line_num, callVars, session_state>>

InitAnalyzer ==
    /\ parser = "FinancialAnalyzer"
    /\ pc = "ask"
    /\ last \in [ratio : Ratios, collection : Flags, funds : Flags]
    /\ df = <<>>
    /\ transactions = <<>>
    /\ previous_balance = None
    /\ found_first_balance = FALSE
    /\ current_section = None
    /\ current_entry = None
    /\ last_line_was_id = FALSE
    /\ potential_bank_continuation_candidate = FALSE
    /\ extracted_rows = <<>>
    /\ line_num = None
    /\ calls = <<>>
    /\ sorted_as = <<>>
    /\ session_state = None

NextAnalyzer == \E impl \in Implementations : Classify(impl)

SpecAnalyzer == InitAnalyzer /\ [][NextAnalyzer]_vars

\* ========================================================= numeric cleaner
\* A token is a sequence of characters: the digits "1" and "2", ",", ".", "(", ")",
\* "-", " ", "S" for the shekel sign, "x" for a letter, and "inf" for the letters
\* i, n, f in a row.
Cleaners == {"clean_number_general", "helpers.clean_number", "text_processing.clean_number"}
Digits == {"1", "2"}
Chars == Digits \cup {",", ".", "(", ")", "-", " ", "S", "x", "inf"}
\* The longest token given to a cleaner.
MaxToken == 4
Tokens == UNION {[1..n -> Chars] : n \in 0..MaxToken}

\* str.strip(): the blanks at both ends are dropped.
RECURSIVE lstrip(_)
lstrip(text) == IF text # <<>> /\ Head(text) = " " THEN lstrip(Tail(text)) ELSE text
RECURSIVE rstrip(_)
rstrip(text) ==
    IF text # <<>> /\ text[Len(text)] = " " THEN rstrip(SubSeq(text, 1, Len(text) - 1)) ELSE text
strip(text) == rstrip(lstrip(text))

\* re.sub(r'[₪,]', '', text).
IsGlyph(c) == c \in {"S", ","}
remove_glyphs(text) == SelectSeq(text, LAMBDA c : ~IsGlyph(c))

\* if text.startswith('(') and text.endswith(')'): text = '-' + text[1:-1]
parenthesized(text) ==
    IF Len(text) >= 2 /\ text[1] = "(" /\ text[Len(text)] = ")"
    THEN <<"-">> \o SubSeq(text, 2, Len(text) - 1)
    ELSE text

\* if text.endswith('-'): text = '-' + text[:-1]
trailing_dash(text) ==
    IF text # <<>> /\ text[Len(text)] = "-"
    THEN <<"-">> \o SubSeq(text, 1, Len(text) - 1)
    ELSE text

\* The number a run of digits writes.
RECURSIVE DigitsValue(_)
DigitsValue(ds) ==
    IF ds = <<>> THEN 0
    ELSE 10 * DigitsValue(SubSeq(ds, 1, Len(ds) - 1)) + (IF ds[Len(ds)] = "1" THEN 1 ELSE 2)

\* float(text): blanks at the ends are dropped and a sign is read; what follows is
\* digits with at most one point among them, or the word inf.  The float is given
\* by its sign, the number before the point and the digits after it; on any other
\* text float raises ValueError.
float(text) ==
    LET u == strip(text)
        neg == u # <<>> /\ Head(u) = "-"
        body == IF neg THEN Tail(u) ELSE u
        points == {i \in DOMAIN body : body[i] = "."}
        point == IF points = {} THEN Len(body) + 1 ELSE CHOOSE i \in points : TRUE
    IN  IF body = <<"inf">>
        THEN [raises |-> "", neg |-> neg, inf |-> TRUE, whole |-> 0, frac |-> <<>>]
        ELSE IF /\ \A i \in DOMAIN body : body[i] \in Digits \cup {"."}
                /\ Cardinality(points) <= 1
                /\ \E i \in DOMAIN body : body[i] \in Digits
        THEN [raises |-> "", neg |-> neg, inf |-> FALSE,
              whole |-> DigitsValue(SubSeq(body, 1, point - 1)),
              frac |-> SubSeq(body, point + 1, Len(body))]
        ELSE [raises |-> "ValueError"]

\* The cleaner named by c on a token, or on None: ap1.py 36-53,
\* utils/helpers.py 10-28, utils/text_processing.py 10-28.
clean_number(c, given) ==
    IF given = None THEN None
    ELSE IF c = "helpers.clean_number" /\ Val(given) = <<>> THEN None
    ELSE LET text == trailing_dash(parenthesized(remove_glyphs(strip(Val(given)))))
         IN  IF c # "text_processing.clean_number" /\ text = <<>> THEN None
             ELSE IF float(text).raises = "ValueError" THEN None
             ELSE Some(float(text))

\* The cleaner is called on the token.
Clean ==
    /\ pc = "token"
    /\ pc' = "cleaned"
    /\ df' = clean_number(parser, last.text)
    /\ UNCHANGED <<parser, last, bankVars, creditVars, line_num, callVars, session_state>>

InitCleaner ==
    /\ parser \in Cleaners
    /\ pc = "token"
    /\ last \in [text : {None} \cup {Some(t) : t \in Tokens}]
    /\ df = <<>>
    /\ transactions = <<>>
    /\ previous_balance = None
    /\ found_first_balance = FALSE
    /\ current_section = None
    /\ current_entry = None
    /\ last_line_was_id = FALSE
    /\ potential_bank_continuation_candidate = FALSE
    /\ extracted_rows = <<>>
    /\ line_num = None
    /\ calls = <<>>
    /\ sorted_as = <<>>
    /\ session_state = None

NextCleaner == Clean

SpecCleaner == InitCleaner /\ [][NextCleaner]_vars

\* ================================================= Leumi line normalisation
\* A line of a Leumi statement as the words between its blanks: numbers, dates,
\* Hebrew words and other words, each with the value that tells it from the others
\* of its kind.
\* The longest line, in words.
MaxWords == 4
Words == [kind : {"number", "date"}, v : {1, 2}] \cup [kind : {"hebrew", "other"}, v : {1}]
LeumiTexts == UNION {[1..n -> Words] : n \in 0..MaxWords}

\* words[::-1]
RECURSIVE Reversed(_)
Reversed(words) == IF words = <<>> THEN <<>> ELSE Append(Reversed(Tail(words)), Head(words))

\* normalize_text_leumi (ap1.py 219-230): when the line holds a Hebrew letter, all
\* its words are put in the reverse order and joined with single blanks.
normalize_text_leumi(words) ==
    IF \E i \in DOMAIN words : words[i].kind = "hebrew" THEN Reversed(words) ELSE words

\* The pattern of parse_leumi_transaction_line_extracted_order_v2 (ap1.py 249-258)
\* on words parted by single blanks: the balance is the first word, the amount the
\* second when it is a number, the date the last word but one.
LeumiPattern(words) ==
    LET n == Len(words)
    IN  IF n >= 4 /\ words[1].kind = "number" /\ words[n - 1].kind = "date"
                  /\ words[n].kind = "date"
        THEN Some([Balance |-> words[1].v,
                   Amount |-> IF words[2].kind = "number" THEN Some(words[2].v) ELSE None,
                   Date |-> words[n - 1].v])
        ELSE None

\* ap1.py 334: the line is normalised.
NormalizeLine ==
    /\ pc = "line"
    /\ pc' = "normalized"
    /\ df' = normalize_text_leumi(last.line)
    /\ UNCHANGED <<parser, last, bankVars, creditVars, line_num, callVars, session_state>>

\* ap1.py 364: the normalised line is given to the line matcher.
MatchLine ==
    /\ pc = "normalized"
    /\ pc' = "matched"
    /\ last' = [last EXCEPT !.parsed = LeumiPattern(df)]
    /\ UNCHANGED <<parser, df, bankVars, creditVars, line_num, callVars, session_state>>

InitLeumiText ==
    /\ parser = LeumiAp1
    /\ pc = "line"
    /\ last \in [line : LeumiTexts, parsed : {None}]
    /\ df = <<>>
    /\ transactions = <<>>
    /\ previous_balance = None
    /\ found_first_balance = FALSE
    /\ current_section = None
    /\ current_entry = None
    /\ last_line_was_id = FALSE
    /\ potential_bank_continuation_candidate = FALSE
    /\ extracted_rows = <<>>
    /\ line_num = None
    /\ calls = <<>>
    /\ sorted_as = <<>>
    /\ session_state = None

NextLeumiText ==
    \/ NormalizeLine
    \/ MatchLine

SpecLeumiText == InitLeumiText /\ [][NextLeumiText]_vars

\* ============================================================ the two applications
\* st.session_state of the questionnaire of ap1.py and of the classification
\* stages of app.py.  A button handler runs when the script is run again after the
\* press, with the values the widgets hold at that moment, so an action draws
\* those values together with the button.  Amounts are whole units of money; a
\* ratio is written in hundredths, (100 * debt) \div income, which stands below,
\* at or above 100 and 200 as the quotient stands to 1 and 2 for every annual
\* income of at most 100 units; inf is float('inf').  "ken" is yes and "lo" is no;
\* "tsahov (bivdika)" is the provisional yellow and "lo nikba" the status that
\* was not determined.
inf == 1000000
\* The largest monthly income and the largest total of debts entered.
MaxIncome == 1
MaxDebt == 25

\* ------------------------------------------------------ ap1.py, the questionnaire
\* ap1.py 869-880 with the sidebar button that calls it (890-892).
reset_all_data ==
    /\ parser = "ap1.py"
    /\ session_state' =
          [app_stage |-> "welcome", questionnaire_stage |-> 0,
           answers |-> [total_net_income |-> 0, total_debt_amount |-> 0, arrears |-> "lo",
                        can_raise |-> "lo", debt_to_income_ratio |-> 0],
           classification_details |-> None]
    /\ UNCHANGED <<parser, pc, df, last, bankVars, creditVars, line_num, callVars>>

\* ap1.py 899-919 and 957-1026: the two buttons of the welcome screen and the two
\* of the upload screen.  Starting with the questionnaire empties the answers and
\* the classification; leaving the upload screen starts at stage 0.
Begin(button) ==
    /\ parser = "ap1.py"
    /\ \/ /\ session_state.app_stage = "welcome"
          /\ button = "start_with_files"
          /\ session_state' = [session_state EXCEPT !.app_stage = "file_upload"]
       \/ /\ session_state.app_stage = "welcome"
          /\ button = "start_with_questionnaire"
          /\ session_state' =
                [session_state EXCEPT
                    !.questionnaire_stage = 0,
                    !.answers = [total_net_income |-> 0, total_debt_amount |-> 0,
                                 arrears |-> "lo", can_raise |-> "lo",
                                 debt_to_income_ratio |-> 0],
                    !.classification_details = None,
                    !.app_stage = "questionnaire"]
       \/ /\ session_state.app_stage = "file_upload"
          /\ button \in {"process_files_button", "skip_files_button"}
          /\ session_state' = [session_state EXCEPT !.app_stage = "questionnaire",
                                                    !.questionnaire_stage = 0]
    /\ UNCHANGED <<parser, pc, df, last, bankVars, creditVars, line_num, callVars>>

\* ap1.py 1071-1073, 1089-1091, 1120-1122 and 1157: "next" of the stages 0 to 2
\* and "previous" of the stages 1 to 3.  Stage 1 stores the income entered
\* (1078-1084), stage 3 the debts and the answer on arrears (1138-1152).
Navigate(step, income, debt, arrears) ==
    /\ parser = "ap1.py"
    /\ session_state.app_stage = "questionnaire"
    /\ \/ step = 1 /\ session_state.questionnaire_stage \in {0, 1, 2}
       \/ step = 0 - 1 /\ session_state.questionnaire_stage \in {1, 2, 3}
    /\ LET q_stage == session_state.questionnaire_stage
           answers == session_state.answers
       IN  session_state' =
              [session_state EXCEPT
                  !.questionnaire_stage = q_stage + step,
                  !.answers =
                      IF q_stage = 1 THEN [answers EXCEPT !.total_net_income = income]
                      ELSE IF q_stage = 3
                      THEN [answers EXCEPT !.total_debt_amount = debt, !.arrears = arrears]
                      ELSE answers]
    /\ UNCHANGED <<parser, pc, df, last, bankVars, creditVars, line_num, callVars>>

\* A first classification that sends the provisional yellow to the summary.
ProvisionalToSummary(ratio, arrears_exist) ==
    IF arrears_exist THEN [classification |-> "adom", next_stage |-> "summary"]
    ELSE IF ratio < 100 THEN [classification |-> "yarok", next_stage |-> "summary"]
    ELSE IF 100 <= ratio /\ ratio <= 200
    THEN [classification |-> "tsahov (bivdika)", next_stage |-> "summary"]
    ELSE [classification |-> "adom", next_stage |-> "summary"]

\* ap1.py 1179-1206: the classification from the ratio and the arrears, and where
\* the questionnaire goes next.
initial_classification(ratio, arrears_exist) ==
    IF arrears_exist THEN [classification |-> "adom", next_stage |-> "summary"]
    ELSE IF ratio < 100 THEN [classification |-> "yarok", next_stage |-> "summary"]
    ELSE IF 100 <= ratio /\ ratio <= 200
    THEN [classification |-> "tsahov (bivdika)", next_stage |-> "stage 100"]
    ELSE [classification |-> "adom", next_stage |-> "summary"]

\* ap1.py 1159-1220: the button that ends stage 3, pressed with the debts and the
\* answer on arrears that the stage shows.
FinishQuestionnaire(debt, arrears) ==
    /\ parser = "ap1.py"
    /\ session_state.app_stage = "questionnaire"
    /\ session_state.questionnaire_stage = 3
    /\ LET annual_income == session_state.answers.total_net_income * 12
           ratio == IF annual_income > 0 THEN (100 * debt) \div annual_income
                    ELSE IF debt > 0 THEN inf ELSE 0
           first == initial_classification(ratio, arrears = "ken")
       IN  session_state' =
              [session_state EXCEPT
                  !.answers = [@ EXCEPT !.total_debt_amount = debt, !.arrears = arrears,
                                        !.debt_to_income_ratio = ratio],
                  !.classification_details = Some(first.classification),
                  !.app_stage = IF first.next_stage = "summary" THEN "summary" ELSE @,
                  !.questionnaire_stage =
                      IF first.next_stage = "summary" THEN 0 - 1 ELSE 100]
    /\ UNCHANGED <<parser, pc, df, last, bankVars, creditVars, line_num, callVars>>

\* ap1.py 1223-1257: the buttons of stage 100, pressed with the answer on raising
\* half of the debts that the stage shows.  With arrears the stage has stored the
\* red status when it was drawn.
Stage100(button, can_raise) ==
    /\ parser = "ap1.py"
    /\ session_state.app_stage = "questionnaire"
    /\ session_state.questionnaire_stage = 100
    /\ \/ /\ button = "to_summary"
          /\ session_state' =
                [session_state EXCEPT
                    !.app_stage = "summary",
                    !.questionnaire_stage = 0 - 1,
                    !.answers = IF session_state.answers.arrears = "ken" THEN @
                                ELSE [@ EXCEPT !.can_raise = can_raise],
                    !.classification_details =
                        IF session_state.answers.arrears = "ken" THEN Some("adom")
                        ELSE IF can_raise = "ken" THEN Some("tsahov")
                        ELSE Some("adom")]
       \/ /\ button = "q_s100_prev"
          /\ session_state' =
                [session_state EXCEPT
                    !.questionnaire_stage = 3,
                    !.answers = IF session_state.answers.arrears = "ken" THEN @
                                ELSE [@ EXCEPT !.can_raise = can_raise],
                    !.classification_details =
                        IF session_state.answers.arrears = "ken" THEN Some("adom") ELSE @]
    /\ UNCHANGED <<parser, pc, df, last, bankVars, creditVars, line_num, callVars>>

\* ------------------------------------------------ app.py, the classification stages
\* The button of the sidebar (app.py 194-229), pressed with a credit report
\* uploaded: the loop of 199-201 stores None under every key that holds
\* "classification", the stage among them; a report that gave rows starts stage 1.
Analyze(monthly_income, total_debts, empty) ==
    /\ parser = "app.py"
    /\ LET annual_income == monthly_income * 12
           ratio == IF annual_income <= 0 THEN inf
                    ELSE (100 * total_debts) \div annual_income
           cleared == [session_state EXCEPT
                          !.analysis_done = FALSE, !.classification = None,
                          !.classification_stage = None,
                          !.collection_proceedings = None, !.can_raise_funds = None]
       IN  session_state' =
              IF empty THEN cleared
              ELSE [cleared EXCEPT
                       !.total_debts = total_debts, !.annual_income = annual_income,
                       !.debt_to_income_ratio = ratio,
                       !.analysis_done = TRUE, !.classification_stage = Some(1)]
    /\ UNCHANGED <<parser, pc, df, last, bankVars, creditVars, line_num, callVars>>

\* An analyzer that never asks about collection proceedings.
never_asks(debt_to_income_ratio) == FALSE

\* src/financial_analyzer.py 50-52.
needs_collection_question(debt_to_income_ratio) ==
    green_threshold <= debt_to_income_ratio /\ debt_to_income_ratio <= yellow_threshold

\* app.py 94-150, called by main when the analysis is done (232-244), with the
\* answer the radio button of the stage holds, None while none is chosen.
handle_classification_questions(answer) ==
    /\ parser = "app.py"
    /\ session_state.analysis_done
    /\ LET ratio == session_state.debt_to_income_ratio
           stage == session_state.classification_stage
           classification == classify_financial_status(ratio, None, None)
       IN  session_state' =
              IF stage = Some(1)
              THEN IF classification # None
                   THEN [session_state EXCEPT !.classification = classification,
                                              !.classification_stage = Some(4)]
                   ELSE IF needs_collection_question(ratio)
                   THEN [session_state EXCEPT !.classification_stage = Some(2)]
                   ELSE session_state
              ELSE IF stage = Some(2) /\ answer = Some("ken")
              THEN [session_state EXCEPT !.collection_proceedings = Some(TRUE),
                                         !.classification = Some("adom"),
                                         !.classification_stage = Some(4)]
              ELSE IF stage = Some(2) /\ answer = Some("lo")
              THEN [session_state EXCEPT !.collection_proceedings = Some(FALSE),
                                         !.classification_stage = Some(3)]
              ELSE IF stage = Some(3) /\ answer = Some("ken")
              THEN [session_state EXCEPT !.can_raise_funds = Some(TRUE),
                                         !.classification = Some("tsahov"),
                                         !.classification_stage = Some(4)]
              ELSE IF stage = Some(3) /\ answer = Some("lo")
              THEN [session_state EXCEPT !.can_raise_funds = Some(FALSE),
                                         !.classification = Some("adom"),
                                         !.classification_stage = Some(4)]
              ELSE session_state
    /\ UNCHANGED <<parser, pc, df, last, bankVars, creditVars, line_num, callVars>>

\* ap1.py 857-866 and initialize_session_state of app.py (23-41).
InitSession ==
    /\ parser \in {"ap1.py", "app.py"}
    /\ session_state =
          IF parser = "ap1.py"
          THEN [app_stage |-> "welcome", questionnaire_stage |-> 0,
                answers |-> [total_net_income |-> 0, total_debt_amount |-> 0,
                             arrears |-> "lo", can_raise |-> "lo",
                             debt_to_income_ratio |-> 0],
                classification_details |-> None]
          ELSE [total_debts |-> 0, annual_income |-> 0, debt_to_income_ratio |-> 0,
                classification |-> None, classification_stage |-> Some(0),
                collection_proceedings |-> None, can_raise_funds |-> None,
                analysis_done |-> FALSE]
    /\ pc = "run"
    /\ df = <<>>
    /\ last = NoLine
    /\ transactions = <<>>
    /\ previous_balance = None
    /\ found_first_balance = FALSE
    /\ current_section = None
    /\ current_entry = None
    /\ last_line_was_id = FALSE
    /\ potential_bank_continuation_candidate = FALSE
    /\ extracted_rows = <<>>
    /\ line_num = None
    /\ calls = <<>>
    /\ sorted_as = <<>>

NextSession ==
    \/ reset_all_data
    \/ \E button \in {"start_with_files", "start_with_questionnaire",
                      "process_files_button", "skip_files_button"} : Begin(button)
    \/ \E step \in {1, 0 - 1}, income \in 0..MaxIncome, debt \in 0..MaxDebt,
          arrears \in {"ken", "lo"} : Navigate(step, income, debt, arrears)
    \/ \E debt \in 0..MaxDebt, arrears \in {"ken", "lo"} : FinishQuestionnaire(debt, arrears)
    \/ \E button \in {"to_summary", "q_s100_prev"}, can_raise \in {"ken", "lo"} :
          Stage100(button, can_raise)
    \/ \E monthly_income \in 0..MaxIncome, total_debts \in 0..MaxDebt, empty \in BOOLEAN :
          Analyze(monthly_income, total_debts, empty)
    \/ \E answer \in {None, Some("ken"), Some("lo")} : handle_classification_questions(answer)

\* Stage 1 asks nothing: handle_classification_questions ends it with st.rerun()
\* (app.py 106), as the analysis did that started it (229), so the script runs
\* again until stage 1 is left.
SpecSession ==
    /\ InitSession
    /\ [][NextSession]_vars
    /\ WF_vars(/\ parser = "app.py"
               /\ session_state.classification_stage = Some(1)
               /\ handle_classification_questions(None))

\* ------------------------------------------------- claims on the statements
\* The balance of the last collected point of date d, in page/line order.
LastCollected(txs, d) ==
    txs[CHOOSE k \in DOMAIN txs :
            txs[k].Date = d /\ \A j \in DOMAIN txs : txs[j].Date = d => j <= k].Balance

\* The line just read matched the transaction pattern and carries a non-zero amount.
HasAmount == last.kind = "tx" /\ last.Amount # None /\ Val(last.Amount) # 0

\* The delta of the line just read against the balance b, in hundredths.
DeltaAgainst(b) == Val(last.Balance) - Val(b)

\* C1: the table every bank-statement assembler returns has strictly increasing
\* dates: ascending order, and no date twice.
C1_StrictlyIncreasingDates ==
    pc = "done" => \A i \in 1..(Len(df) - 1) : df[i].Date < df[i + 1].Date

\* Two points of one date and different balances were collected and one row is returned.
C1_Witness ==
    /\ pc = "done"
    /\ Len(transactions) = 2
    /\ transactions[1].Date = transactions[2].Date
    /\ transactions[1].Balance # transactions[2].Balance
    /\ Len(df) = 1

\* C2: in the tables of create_dataframe, _create_dataframe and the ap1.py Leumi and
\* Discount extractors, the balance of each date is that of the last collected point of
\* that date in page/line order.
C2_LastLineWins ==
    (pc = "done" /\ parser \in BankParsers \ {HapoalimAp1})
        => \A i \in DOMAIN df : df[i].Balance = LastCollected(transactions, df[i].Date)

C4_FirstAnchorNeverAppends ==
    (parser = LeumiAp1 /\ last.kind = "tx" /\ last.before = None) =>
        /\ ~last.appended
        /\ previous_balance = last.Balance

\* C5: a matched line with a non-zero amount whose delta matches neither +amount nor
\* -amount within the tolerance is not classified, appends no point, and
\* previous_balance still advances to its balance.
C5_UnreconciledAdvances ==
    (parser = LeumiAp1 /\ HasAmount) =>
        /\ (/\ Abs(DeltaAgainst(last.used) + Val(last.Amount)) > tolerance
            /\ Abs(DeltaAgainst(last.used) - Val(last.Amount)) > tolerance)
              => (last.Debit = None /\ last.Credit = None)
        /\ (last.Debit = None /\ last.Credit = None)
              => (~last.appended /\ previous_balance = last.Balance)

\* An unreconciled line moved previous_balance and left the collected points alone.
C5_Witness ==
    /\ parser = LeumiAp1
    /\ HasAmount
    /\ last.Debit = None /\ last.Credit = None
    /\ last.before # None
    /\ last.before # last.Balance
    /\ previous_balance = last.Balance
    /\ transactions # <<>>

\* C6: previous_balance is null before the first line; after every matched line
\* (classified, unreconciled or without an amount) it is that line's balance; a page
\* boundary leaves it alone; once set it is never null again.
C6_PreviousBalanceCarried ==
    parser = LeumiAp1 =>
        /\ last.kind = "none" => previous_balance = None
        /\ last.kind = "tx" => previous_balance = last.Balance
        /\ last.kind = "page" => previous_balance = last.before
        /\ last.before # None => previous_balance # None

\* A page boundary was crossed with the balance of an earlier page in hand.
C6_Witness ==
    /\ parser = LeumiAp1
    /\ last.kind = "page"
    /\ previous_balance # None

\* C7: LeumiParser.parse_pdf and BankParser._parse_leumi append a point for a matched
\* line only when its amount reconciles with the delta against the previous balance;
\* a matched line that is not appended only moves the previous balance.
C7_ClassParsersReconcile ==
    (parser \in {LeumiClass, LeumiBank} /\ last.kind = "tx") =>
        /\ last.appended =>
              /\ last.before # None
              /\ HasAmount
              /\ \/ Abs(DeltaAgainst(last.before) + Val(last.Amount)) <= tolerance
                 \/ Abs(DeltaAgainst(last.before) - Val(last.Amount)) <= tolerance
        /\ ~last.appended => previous_balance = last.Balance

FlushOf(entry, section, rows) ==
    IF parser = CreditAp1 THEN process_entry_final_cr(entry, section, rows)
    ELSE CreditParser_process_entry(entry, section, rows)

\* C9: every row of the table returned by extract_credit_data_final_v13 and by
\* CreditParser.parse_pdf has a non-empty creditor name and a value in at least one of
\* the credit limit, the original amount and the outstanding balance.
C9_LedgerCompletenessFloor ==
    (pc = "done" /\ parser \in CreditParsers) =>
        \A i \in DOMAIN df :
            /\ df[i].bank # <<>>
            /\ df[i].limit # None \/ df[i].original # None \/ df[i].outstanding # None

\* A table of two rows is returned: one with a credit limit, one with an original
\* amount and no credit limit.
C9_Witness ==
    /\ pc = "done"
    /\ Len(df) = 2
    /\ df[1].limit # None
    /\ df[2].limit = None /\ df[2].original # None

\* C10: on a section-header line the pending entry, if there is one and it was not
\* flushed before, is flushed under the section that was current before the header;
\* then current_section is the header's section and current_entry is null; no other
\* row is added.
C10_SectionHeaderStep ==
    [][last'.kind = "header" =>
          /\ extracted_rows' =
                IF Unprocessed(current_entry)
                THEN FlushOf(current_entry, current_section, extracted_rows)
                ELSE extracted_rows
          /\ Len(extracted_rows') <= Len(extracted_rows) + 1
          /\ current_section' = Some(section_patterns[last'.line.keyword])
          /\ current_entry' = None]_vars

\* A header line closed an entry of another section: the row emitted carries the
\* section that was current before the header.
C10_Witness ==
    /\ last.kind = "header"
    /\ last.flushed
    /\ current_entry = None
    /\ extracted_rows[Len(extracted_rows)].type # current_section

\* The entry of the accumulator has the same creditor name and numbers in both states.
SameNameAndNumbers(before, after) ==
    IF before = None THEN after = None
    ELSE /\ after # None
         /\ Val(after).bank = Val(before).bank
         /\ Val(after).numbers = Val(before).numbers

\* C11: reading a summary line, extract_credit_data_final_v13 processes the entry
\* that is open and not yet processed (at most one row, filed under the current
\* section), leaves no current entry and leaves the current section as it was.
C11_FooterStep ==
    [][(parser = CreditAp1 /\ last'.n = last.n + 1 /\ last'.line.footer) =>
          /\ extracted_rows' =
                IF Unprocessed(current_entry)
                THEN process_entry_final_cr(current_entry, current_section, extracted_rows)
                ELSE extracted_rows
          /\ Len(extracted_rows') <= Len(extracted_rows) + 1
          /\ current_entry' = None
          /\ current_section' = current_section]_vars

\* A summary line has just emitted the row of the open entry of a loan section,
\* and the section is still the loan section.
C11_Witness ==
    /\ parser = CreditAp1 /\ last.line.footer /\ last.flushed
    /\ current_entry = None
    /\ current_section = Some("halvaa")
    /\ extracted_rows[Len(extracted_rows)].type = Some("halvaa")

\* C12: a line of extract_credit_data_final_v13 that starts with the masked-account
\* prefix, read inside a section, sets the identifier flag, leaves the creditor
\* name and the numbers of the current entry as they were and emits no row.
C12_IdentifierLine ==
    [][(parser = CreditAp1 /\ last'.n = last.n + 1 /\ last'.line.id
            /\ current_section # None) =>
          /\ last_line_was_id'
          /\ SameNameAndNumbers(current_entry, current_entry')
          /\ extracted_rows' = extracted_rows]_vars

\* C13: when a number line of extract_credit_data_final_v13 comes right after an
\* identifier line while an entry is open and not yet processed, that entry is
\* processed with the numbers it had, and a new entry is started that carries the
\* same creditor name and none of those numbers.
C13_NumberAfterIdentifier ==
    [][(parser = CreditAp1 /\ last'.n = last.n + 1 /\ last.line.id /\ last'.line.pure
            /\ Unprocessed(current_entry)) =>
          /\ extracted_rows' =
                process_entry_final_cr(current_entry, current_section, extracted_rows)
          /\ current_entry' =
                NewEntry(Val(current_entry).bank, <<Val(last'.line.number)>>)]_vars

IsCandidateName(l) ==
    /\ ~l.empty /\ l.keyword \notin DOMAIN section_patterns /\ ~l.footer
    /\ l.number = None /\ ~l.id /\ ~l.noise /\ ~l.phrase
    /\ StripId(l.words) # <<>>

\* C15: in extract_credit_data_final_v13 a candidate-name line whose text holds a
\* creditor keyword always processes the entry that is open and starts a new entry
\* whose name is the text of the line and whose number list is empty.
C15_KeywordLineStartsEntry ==
    [][(parser = CreditAp1 /\ last'.n = last.n + 1 /\ current_section # None
            /\ IsCandidateName(last'.line)
            /\ HasWordIn(StripId(last'.line.words), BANK_KEYWORDS_CR)) =>
          /\ extracted_rows' =
                IF Unprocessed(current_entry)
                THEN process_entry_final_cr(current_entry, current_section, extracted_rows)
                ELSE extracted_rows
          /\ current_entry' = NewEntry(StripId(last'.line.words), <<>>)]_vars

\* The creditor name of the entry grew by text put at its end.
NameExtended(before, after) ==
    /\ before # None /\ after # None
    /\ Len(Val(after).bank) > Len(Val(before).bank)
    /\ SubSeq(Val(after).bank, 1, Len(Val(before).bank)) = Val(before).bank

\* C16: in extract_credit_data_final_v13 a line is appended to the current
\* creditor name only when the continuation flag is set, the flag being set
\* implies that a current entry exists and has no numbers, and so the creditor
\* name of an entry does not change once the entry holds a number.
C16_NameFixedAfterFirstNumber ==
    [][parser = CreditAp1 =>
          /\ NameExtended(current_entry, current_entry') =>
                potential_bank_continuation_candidate
          /\ potential_bank_continuation_candidate' =>
                current_entry' # None /\ Val(current_entry').numbers = <<>>
          /\ (/\ current_entry # None /\ Val(current_entry).numbers # <<>>
              /\ current_entry' # None /\ Val(current_entry').numbers # <<>>) =>
                Val(current_entry').bank = Val(current_entry).bank]_vars

\* A line that could continue a name was read after the numbers of an entry: the
\* entry was emitted under the name it had and the line opened an entry of its own.
C16_Witness ==
    /\ parser = CreditAp1 /\ last.flushed
    /\ last.line.words = <<"bank", "leumi">>
    /\ seems_like_continuation_text(last.line.words)
    /\ current_entry = NewEntry(<<"bank", "leumi">>, <<>>)
    /\ potential_bank_continuation_candidate
    /\ extracted_rows[Len(extracted_rows)].bank = <<"bank", "leumi", "baam">>

C18_ProcessedEntryIsGone ==
    [][parser = CreditAp1 =>
          /\ current_entry' # None => ~Val(current_entry').processed
          /\ (/\ current_entry # None /\ Val(current_entry).processed
              /\ current_entry' # None /\ Val(current_entry').processed) =>
                Val(current_entry').numbers = Val(current_entry).numbers]_vars

\* C19: at the end of the document an entry that is open and not yet processed is
\* processed exactly once, in extract_credit_data_final_v13 and in
\* CreditParser.parse_pdf alike: at most one row is added, and when the entry has
\* a name and at least two numbers the last row of the report is the row of that
\* entry, filed under the current section.
C19_EndOfDocumentFlush ==
    [][last'.kind = "eof" =>
          /\ extracted_rows' =
                IF Unprocessed(current_entry)
                THEN FlushOf(current_entry, current_section, extracted_rows)
                ELSE extracted_rows
          /\ Len(extracted_rows') <= Len(extracted_rows) + 1
          /\ (/\ Unprocessed(current_entry)
              /\ Val(current_entry).bank # <<>>
              /\ Len(Val(current_entry).numbers) >= 2) =>
                /\ Len(extracted_rows') = Len(extracted_rows) + 1
                /\ Len(df') = Len(extracted_rows')
                /\ df'[Len(df')].type = current_section
                /\ df'[Len(df')].outstanding # None
          /\ pc' = "done"]_vars

\* The document ended with an open entry of two numbers or more, and the last row
\* of the report is the row of that entry.
C19_Witness ==
    /\ pc = "done" /\ last.kind = "eof" /\ last.flushed
    /\ Unprocessed(current_entry)
    /\ Len(Val(current_entry).numbers) >= 2
    /\ df # <<>>
    /\ df[Len(df)].type = current_section

\* The sections of current accounts and revolving credit.
CheckingSections == {Some("osh"), Some("misgeret")}

\* The entry has a creditor name and at least two numbers.
HasNameAndTwoNumbers(entry) ==
    entry # None /\ Val(entry).bank # <<>> /\ Len(Val(entry).numbers) >= 2

\* The row is the one the column rule of the checking sections gives the entry.
IsCheckingRow(r, entry, section) ==
    /\ r.type = section
    /\ r.limit = Some(Val(entry).numbers[1])
    /\ r.outstanding = Some(Val(entry).numbers[2])
    /\ r.unpaid = IF Len(Val(entry).numbers) >= 3 THEN Some(Val(entry).numbers[3]) ELSE Some(0)
    /\ r.original = None

\* C20: in a checking or revolving section process_entry_final_cr and
\* CreditParser._process_entry emit an entry iff it has a creditor name and at
\* least two numbers, and the row has limit = n1, outstanding = n2, unpaid = n3
\* if there is one and 0 otherwise, and no original amount.
C20_CheckingRevolvingRow ==
    [][/\ \A section \in CheckingSections :
             LET out == FlushOf(current_entry', section, <<>>)
             IN  IF HasNameAndTwoNumbers(current_entry')
                 THEN Len(out) = 1 /\ IsCheckingRow(out[1], current_entry', section)
                 ELSE out = <<>>
       /\ (current_section \in CheckingSections /\ last'.flushed) =>
             /\ HasNameAndTwoNumbers(current_entry)
             /\ Len(extracted_rows') = Len(extracted_rows) + 1
             /\ IsCheckingRow(extracted_rows'[Len(extracted_rows')], current_entry,
                              current_section)
       /\ (/\ current_section \in CheckingSections
           /\ last'.kind \in {"header", "footer", "eof"}
           /\ Unprocessed(current_entry) /\ HasNameAndTwoNumbers(current_entry)) =>
             last'.flushed]_vars

\* The document ended in the current-account section with an entry of three
\* numbers, and its row holds them as limit, outstanding and unpaid amounts.
C20_Witness ==
    /\ last.kind = "eof" /\ last.flushed
    /\ current_section = Some("osh")
    /\ current_entry # None
    /\ Len(Val(current_entry).numbers) = 3
    /\ df[Len(df)].limit = Some(Val(current_entry).numbers[1])
    /\ df[Len(df)].unpaid = Some(Val(current_entry).numbers[3])

\* The sections of loans and mortgages.
LoanSections == {Some("halvaa"), Some("mashkanta")}

\* C21: in a loan or mortgage section an entry with a creditor name and exactly
\* one number is emitted by process_entry_final_cr and CreditParser._process_entry
\* as a row whose outstanding amount is that number and that has no original amount.
C21_LoanOneNumber ==
    \A section \in LoanSections :
        (/\ current_entry # None /\ Val(current_entry).bank # <<>>
         /\ Len(Val(current_entry).numbers) = 1) =>
            LET out == FlushOf(current_entry, section, <<>>)
            IN  /\ Len(out) = 1
                /\ out[1].outstanding = Some(Val(current_entry).numbers[1])
                /\ out[1].original = None

\* C22: in a loan or mortgage section process_entry_final_cr reads the first of at
\* least three numbers, when it is a whole number below 500, as a payment count
\* to discard: the row has original = n2, outstanding = n3, and unpaid = n4 if
\* there is one and 0 otherwise.
C22_PaymentCountDiscarded ==
    \A section \in LoanSections :
        (/\ parser = CreditAp1
         /\ current_entry # None /\ Val(current_entry).bank # <<>>
         /\ Len(Val(current_entry).numbers) >= 3
         /\ Val(current_entry).numbers[1] % 100 = 0
         /\ Val(current_entry).numbers[1] < 50000) =>
            LET numbers == Val(current_entry).numbers
                out == process_entry_final_cr(current_entry, section, <<>>)
            IN  /\ Len(out) = 1
                /\ out[1].original = Some(numbers[2])
                /\ out[1].outstanding = Some(numbers[3])
                /\ out[1].unpaid = IF Len(numbers) >= 4 THEN Some(numbers[4]) ELSE Some(0)

\* ------------------------------------------------ claims on the error paths
\* What a document has contributed so far: its points or its rows.
Collected == IF parser \in BankParsers THEN transactions ELSE extracted_rows

\* C23: when the byte stream cannot be opened as a PDF, every parse entry point
\* returns an empty table and raises nothing to the caller.
C23_OpenFailureEmptyTable ==
    [][(pc = "open" /\ pc' # "run") => (pc' = "done" /\ df' = <<>>)]_vars

\* HapoalimParser.parse_pdf has returned the empty table after fitz.open raised.
C23_Witness ==
    /\ parser = HapoalimClass /\ last.kind = "open fails"
    /\ pc = "done" /\ df = <<>>

\* C24: whatever fails after the document was opened, while the text of a page is
\* extracted or a line is handled, no exception leaves a parse entry point: the
\* entry point still returns a table.
C24_NeverRaises == pc # "raised"

\* C25: a failure in the handling of one line empties nothing and ends nothing:
\* the parse goes on with what the earlier lines contributed, every later line
\* that holds a point still contributes it, and the table returned is empty only
\* if nothing was collected or the document failed to open.
C25_LineFailureIsolated ==
    [][/\ last'.kind = "line fails" => (pc' = "run" /\ Collected' = Collected)
       /\ (last'.n = last.n + 1 /\ last'.line = "point") =>
             Len(Collected') = Len(Collected) + 1
       /\ (pc' = "done" /\ last'.kind # "open fails") =>
             Len(df') = Len(Collected')]_vars


\* ------------------------------------------- claims on parses of one object
\* The local variables of a call that has read the first k lines of doc and nothing
\* else: the line loop run on that document alone.
RECURSIVE ParseLines(_, _, _)
ParseLines(p, doc, k) ==
    IF k = 0 THEN NoLocals ELSE CallStep(p, ParseLines(p, doc, k - 1), doc[k])

\* C26: whatever the other call on the same parser object has done, the previous
\* balance, section, current entry and rows of a call are those of the lines it
\* has read of its own document, the table it returns is one built from those rows,
\* and two calls given the same document return the same table.
C26_ParsesIndependent ==
    \A i \in DOMAIN calls :
        LET alone == ParseLines(parser, calls[i].doc, calls[i].pos)
        IN  /\ calls[i].locals = alone
            /\ calls[i].pc = "done" =>
                  /\ calls[i].df \in CallTables(parser, CallRows(parser, alone))
                  /\ \A j \in DOMAIN calls :
                        calls[j].pc = "done" /\ calls[j].doc = calls[i].doc
                            => calls[j].df = calls[i].df

\* Two calls with different documents are both in the middle of their documents and
\* both hold state.
C26_Witness ==
    /\ calls # <<>>
    /\ calls[1].doc # calls[2].doc
    /\ \A i \in Calls :
          /\ calls[i].pc = "run"
          /\ calls[i].pos \in 1..(Len(calls[i].doc) - 1)
          /\ calls[i].locals # NoLocals


\* ------------------------------------------- claims on the Dialect A readers
\* C27: a line that contains one of the caption phrases gives no point, whichever
\* reader reads it and whatever date and balance it carries.
C27_HeaderLineExcluded ==
    (last.kind = "dialect A" /\ last.line # None /\ Val(last.line).phrase # "")
        => ~last.appended


IsAmountText(v) ==
    LET w == IF v # <<>> /\ Head(v) = "S" THEN Tail(v) ELSE v
    IN  /\ w # <<>>
        /\ Head(w) \in Digits
        /\ w[Len(w)] \in Digits
        /\ \A i \in DOMAIN w : w[i] \in Digits \cup {",", "."}
        /\ Cardinality({i \in DOMAIN w : w[i] = "."}) <= 1
        /\ \A i \in DOMAIN w : w[i] = "," => \A j \in DOMAIN w : w[j] = "." => i < j

\* The number v writes, with a minus sign.
Negative(v) == Some([float(remove_glyphs(v)) EXCEPT !.neg = TRUE])

\* C29: a token "(v)" and a token "v-" are cleaned to -v, a token without a digit is
\* cleaned to None, and the cleaner returns on every token.
C29_CleanerContract ==
    (pc = "cleaned" /\ last.text # None) =>
        LET text == Val(last.text)
        IN  /\ \A v \in Tokens :
                  IsAmountText(v) /\ text \in {<<"(">> \o v \o <<")">>, v \o <<"-">>}
                      => df = Negative(v)
            /\ (\A i \in DOMAIN text : text[i] \notin Digits) => df = None


\* ------------------------------------------ claims on the Leumi normalisation
\* The numbers and dates of a line, in the order they stand in.
NumbersAndDates(words) == SelectSeq(words, LAMBDA w : w.kind \in {"number", "date"})

\* C30: in the line the matcher is given, every number and every date stands at the
\* place it had in the line as read, and the numbers and dates follow one another
\* in the same order.
C30_NumbersAndDatesKeepPlace ==
    pc \in {"normalized", "matched"} =>
        /\ Len(df) = Len(last.line)
        /\ \A i \in DOMAIN last.line :
              last.line[i].kind \in {"number", "date"} => df[i] = last.line[i]
        /\ NumbersAndDates(df) = NumbersAndDates(last.line)


\* ------------------------------------------------ claims on the tolerance
\* C31: a matched line with a non-zero amount whose balance delta against the
\* previous balance is a full hundredth or more away from the amount and from the
\* negated amount is given neither a debit nor a credit.
C31_FullUnitMismatchRejected ==
    (/\ parser = LeumiAp1
     /\ last.kind = "tx"
     /\ HasAmount
     /\ last.used # None
     /\ Abs(DeltaAgainst(last.used) + Val(last.Amount)) >= 1
     /\ Abs(DeltaAgainst(last.used) - Val(last.Amount)) >= 1)
        => (last.Debit = None /\ last.Credit = None)


\* ------------------------------------------------- claims on duplicate dates
\* C32: the table of extract_transactions_from_pdf_hapoalim holds, for each
\* date, the balance of the last line collected for that date, whatever the
\* magnitudes of the balances reported for it.
C32_HapoalimLastReported ==
    (pc = "done" /\ parser = HapoalimAp1)
        => \A i \in DOMAIN df :
              df[i].Balance = LastCollected(transactions, df[i].Date)


\* ------------------------------------------ claims on the credit accumulator
\* The entry was opened by the line just read: it holds no number, or only the
\* number of that line.
OpenedBy(entry, l) ==
    /\ entry # None /\ ~Val(entry).processed
    /\ \/ Val(entry).numbers = <<>>
       \/ l.number # None /\ Val(entry).numbers = <<Val(l.number)>>

\* C36: in both credit parsers no entry is emitted twice: a step adds at most one
\* row, at the end of the rows already there; after a step that emitted the row
\* of the current entry that entry is gone, marked as processed or replaced by an
\* entry the line opened, or the document has ended; an entry marked as processed
\* emits nothing and stays marked until it is replaced.
C36_NoEntryEmittedTwice ==
    [][(parser \in CreditParsers) =>
          /\ Len(extracted_rows') <= Len(extracted_rows) + 1
          /\ SubSeq(extracted_rows', 1, Len(extracted_rows)) = extracted_rows
          /\ extracted_rows' # extracted_rows =>
                /\ current_entry # None /\ ~Val(current_entry).processed
                /\ \/ pc' = "done"
                   \/ current_entry' = None
                   \/ Val(current_entry').processed
                   \/ OpenedBy(current_entry', last'.line)
          /\ (current_entry # None /\ Val(current_entry).processed) =>
                /\ extracted_rows' = extracted_rows
                /\ (\/ current_entry' = None
                    \/ Val(current_entry').processed
                    \/ OpenedBy(current_entry', last'.line))]_vars

\* The document ended on an entry whose row had been emitted when trailing text
\* was read: the end of the document emitted nothing and the entry's row is there
\* once.
C36_Witness ==
    /\ parser = CreditAp1 /\ pc = "done" /\ last.kind = "eof" /\ ~last.flushed
    /\ current_entry # None /\ Val(current_entry).processed
    /\ Len(Val(current_entry).numbers) = 2
    /\ Len(extracted_rows) = 1
    /\ extracted_rows[1].bank = bank_name_final(Val(current_entry).bank)
    /\ extracted_rows[1].outstanding = Some(Val(current_entry).numbers[2])


\* C37: extract_credit_data_final_v13 loses no accumulated numbers: whenever the
\* current entry is replaced by an entry a line opens, reset to null by a header
\* or a summary line, or left open at the end of the document, and it has a
\* creditor name and at least two numbers, the rows hold a row of that creditor
\* under the section the entry was read in.
C37_NoNumbersLost ==
    [][(/\ parser = CreditAp1
        /\ HasNameAndTwoNumbers(current_entry)
        /\ \/ pc' = "done"
           \/ current_entry' = None
           \/ OpenedBy(current_entry', last'.line)) =>
          \E i \in DOMAIN extracted_rows' :
              /\ extracted_rows'[i].type = current_section
              /\ extracted_rows'[i].bank = bank_name_final(Val(current_entry).bank)]_vars


\* C38: in both credit parsers every emitted row carries the section that was
\* current when the creditor-name line of its entry was read: a name line opens
\* its entry inside a section and leaves the section as it is, no entry outlives
\* a change of section, and a row is filed under the section current before the
\* step that emits it.  While no section header has been seen there is no current
\* entry and no row.
C38_RowFiledUnderSectionOfName ==
    [][(parser \in CreditParsers) =>
          /\ current_section' = None =>
                (current_entry' = None /\ extracted_rows' = <<>>)
          /\ last'.kind = "name" =>
                (current_section # None /\ current_section' = current_section)
          /\ (current_entry # None /\ current_entry' # None) =>
                current_section' = current_section
          /\ extracted_rows' # extracted_rows =>
                /\ current_entry # None
                /\ extracted_rows'[Len(extracted_rows')].type = current_section
                /\ current_section # None]_vars

\* A report of two sections came to its end: the row of the entry read in the loan
\* section is filed under the loan section and the row of the entry read in the
\* current-account section under that one.
C38_Witness ==
    /\ pc = "done" /\ last.kind = "eof" /\ last.flushed
    /\ Len(extracted_rows) = 2
    /\ extracted_rows[1].type = Some("halvaa")
    /\ extracted_rows[2].type = Some("osh")
    /\ current_section = Some("osh")


\* ------------------------------------------------ claims on the applications
\* C33: the button that ends the debts stage of the ap1.py questionnaire applies
\* the thresholds for every combination of answers: with a ratio below 1.0 the
\* classification is green and the summary is shown, with a ratio above 2.0 it is
\* red and the summary is shown, and with a ratio from 1.0 to 2.0 the
\* questionnaire goes to stage 100 and no final classification is stored yet.
C33_FinishAppliesThresholds ==
    [][(/\ parser = "ap1.py"
        /\ session_state.app_stage = "questionnaire"
        /\ session_state.questionnaire_stage = 3
        /\ session_state'.questionnaire_stage \in {0 - 1, 100}) =>
          LET ratio == session_state'.answers.debt_to_income_ratio
              stored == session_state'.classification_details
          IN  /\ ratio < 100 =>
                    (stored = Some("yarok") /\ session_state'.app_stage = "summary")
              /\ ratio > 200 =>
                    (stored = Some("adom") /\ session_state'.app_stage = "summary")
              /\ (100 <= ratio /\ ratio <= 200) =>
                    /\ session_state'.questionnaire_stage = 100
                    /\ session_state'.app_stage = "questionnaire"
                    /\ stored \notin {Some("yarok"), Some("tsahov"), Some("adom")}]_vars

\* C34: whatever buttons of the ap1.py questionnaire are pressed, when the
\* summary is shown the stored classification is green, yellow or red, never the
\* provisional yellow or the status that was not determined, and it is yellow
\* only if the ratio stored is from 1.0 to 2.0, no arrears were reported and the
\* answer on raising half of the debts is yes.
C34_SummaryHoldsFinalStatus ==
    (parser = "ap1.py" /\ session_state.app_stage = "summary") =>
        /\ session_state.classification_details
              \in {Some("yarok"), Some("tsahov"), Some("adom")}
        /\ session_state.classification_details = Some("tsahov") =>
              /\ 100 <= session_state.answers.debt_to_income_ratio
              /\ session_state.answers.debt_to_income_ratio <= 200
              /\ session_state.answers.arrears = "lo"
              /\ session_state.answers.can_raise = "ken"
              /\ session_state.answers.debt_to_income_ratio =
                    (100 * session_state.answers.total_debt_amount)
                        \div (12 * session_state.answers.total_net_income)

\* The summary shows yellow: the questionnaire went through stage 100 with debts of
\* one and a half annual incomes.
C34_Witness ==
    /\ parser = "ap1.py"
    /\ session_state.app_stage = "summary"
    /\ session_state.questionnaire_stage = 0 - 1
    /\ session_state.classification_details = Some("tsahov")
    /\ session_state.answers.debt_to_income_ratio = 150


\* The stage of the classification of app.py, 0 where the key holds None.
StageOf(state) ==
    IF state.classification_stage = None THEN 0 ELSE Val(state.classification_stage)

=============================================================================
